---- MODULE Spec2Model ----
(***************************************************************************)
(* Model of the database serializers of syntropylog-adapters:              *)
(* PrismaSerializer, TypeORMSerializer, MySQLSerializer,                   *)
(* PostgreSQLSerializer, SQLServerSerializer, OracleSerializer and         *)
(* MongoDBSerializer.  A payload is a JavaScript value; the recognizers    *)
(* are the duck-typing predicates of the classes, the classifier is        *)
(* assessQueryComplexity and the pipeline is the body of serialize.        *)
(***************************************************************************)
EXTENDS Integers, Sequences, FiniteSets, TLC

VARIABLES
    pc,         \* where the serialize call is: idle, try, catch, returned, rejected
    fam,        \* the serializer the call is made on
    data,       \* the payload
    ctx,        \* the SerializationContext
    now,        \* the last value Date.now() returned
    startTime,  \* const startTime
    measured,   \* const duration of the try block, -1 before it is computed
    thrown,     \* the error the catch clause caught
    result,     \* the SerializationResult the promise resolved to
    sPc,        \* classifier run: idle or done
    sFam,       \* the SQL text family it runs for
    sQuery,     \* the query it scores
    sParts,     \* what each block added to `complexity`
    sBucket,    \* its return value
    zPc,        \* DataSanitizer.sanitize call: idle, returned, threw, again
    zData,      \* its data argument
    zContext,   \* its context argument
    zOut,       \* what sanitize(data, context) returned
    zAgain,     \* what sanitize(zOut, context) returned
    cCalls,     \* concurrent serialize calls: the locals of each caller
    cNow,       \* the clock the concurrent calls read
    cInstances, \* the fields of the serializer instances the calls use
    rConnection, \* RabbitMQAdapter.connection: 0 is null, else the connection
    rChannel,   \* RabbitMQAdapter.channel: 0 is null, else the channel
    rTags,      \* RabbitMQAdapter.consumerTags: topic -> tag, 0 when absent
    rBroker,    \* the broker: open connections and channels, live consumers
    rCalls,     \* the adapter calls in flight: locals and awaited step
    rNext,      \* the next connection and the next consumer tag the broker gives
    rClean,     \* TRUE from the return of disconnect to the next call made
    rLink,      \* what the callers were told: down, up (connect resolved),
                \* closing (disconnect began and has not resolved)
    wPc,        \* CloudWatchAdapter.log call: idle, send, retry, resolved, rejected
    wToken,     \* CloudWatchAdapter.sequenceToken: 0 is undefined
    wExpected,  \* the sequence token the log stream expects next
    wReply,     \* how the awaited client.send settles
    wCall,      \* the log call: tokens sent, the accepting response, the error
    mPc,        \* MQTTAdapter: none, ready, send, resolved, rejected
    mConfig,    \* the MQTTAdapterConfig the adapter was constructed with
    mAdapter,   \* its fields topicPrefix, defaultQos, defaultRetain
    mMessage,   \* the MQTTMessage given to publish
    mCommand,   \* the input of the PublishCommand it sent
    nConnection, \* NatsAdapter.natsConnection: 0 is null, else the connection
    nSubs,      \* NatsAdapter.subscriptions: topic -> subscription, 0 when absent
    nServer,    \* the NATS side: open connections and live subscriptions
    nCalls,     \* the adapter calls in flight
    nNext,      \* the next connection and subscription the client library makes
    nLink,      \* what the callers were told: down, up, closing
    s3Pc,       \* S3Adapter: none (not constructed) or ready
    s3Prefix,   \* S3Adapter.prefix
    s3Bucket,   \* the bucket: the objects as records of Key and Body
    s3Where,    \* for each key given to store, the Key its object was put at
    s3Listed,   \* the keys the last call of list returned
    s3Last      \* the last call: method, key argument, Key sent, outcome

vars == <<pc, fam, data, ctx, now, startTime, measured, thrown, result,
          sPc, sFam, sQuery, sParts, sBucket,
          zPc, zData, zContext, zOut, zAgain, cCalls, cNow, cInstances,
          rConnection, rChannel, rTags, rBroker, rCalls, rNext, rClean, rLink,
          wPc, wToken, wExpected, wReply, wCall,
          mPc, mConfig, mAdapter, mMessage, mCommand,
          nConnection, nSubs, nServer, nCalls, nNext, nLink,
          s3Pc, s3Prefix, s3Bucket, s3Where, s3Listed, s3Last>>

callVars == <<pc, fam, data, ctx, now, startTime, measured, thrown, result>>
scoreVars == <<sPc, sFam, sQuery, sParts, sBucket>>
sanitizeVars == <<zPc, zData, zContext, zOut, zAgain>>
concurrentVars == <<cCalls, cNow, cInstances>>
rabbitVars ==
    <<rConnection, rChannel, rTags, rBroker, rCalls, rNext, rClean, rLink>>
cloudVars == <<wPc, wToken, wExpected, wReply, wCall>>
mqttVars == <<mPc, mConfig, mAdapter, mMessage, mCommand>>
natsVars == <<nConnection, nSubs, nServer, nCalls, nNext, nLink>>
s3Vars == <<s3Pc, s3Prefix, s3Bucket, s3Where, s3Listed, s3Last>>
adapterVars == <<rabbitVars, cloudVars, mqttVars, natsVars, s3Vars>>
serializerVars == <<callVars, scoreVars, sanitizeVars, concurrentVars>>

(***************************************************************************)
(* Bounds of the model.                                                    *)
(***************************************************************************)
\* own properties (among those a family reads) an object payload carries
MaxFields == 3
\* words of an SQL statement text
MaxTokens == 2
\* levels of nesting around the innermost value given to the sanitizer
MaxDepth == 2
\* calls of serialize that are in flight at the same time
MaxCallers == 2
\* calls of one broker adapter that are in flight at the same time
MaxInFlight == 2
\* connections the broker client library opens during a run
MaxConnects == 2
\* consumers the broker starts during a run
MaxConsumers == 2
\* sequence tokens a log stream hands out during a run
MaxSequence == 4

(***************************************************************************)
(* SQL text.  A statement is a sequence of words separated by one space,   *)
(* followed by `pad` filler characters (trailing spaces); the classifier   *)
(* works on its characters.                                                *)
(***************************************************************************)
Word == [
    SELECT     |-> <<"S","E","L","E","C","T">>,
    INSERT     |-> <<"I","N","S","E","R","T">>,
    Update     |-> <<"U","p","d","a","t","e">>,
    delete     |-> <<"d","e","l","e","t","e">>,
    create     |-> <<"c","r","e","a","t","e">>,
    alter      |-> <<"a","l","t","e","r">>,
    drop       |-> <<"d","r","o","p">>,
    begin      |-> <<"b","e","g","i","n">>,
    t          |-> <<"t">>,
    select     |-> <<"s","e","l","e","c","t">>,
    join       |-> <<"J","O","I","N">>,
    subq       |-> <<"(","s","e","l","e","c","t">>,
    subq_sp    |-> <<"("," ","s","e","l","e","c","t">>,
    over       |-> <<"o","v","e","r","(">>,
    over_sp    |-> <<"O","V","E","R"," ","(">>,
    cte        |-> <<"w","i","t","h"," ","x"," ","a","s">>,
    updated_at |-> <<"u","p","d","a","t","e","d","_","a","t">> ]

\* the words a statement starts with, and the operation kind each names
Verbs == {"SELECT", "INSERT", "Update", "delete", "create", "alter", "drop", "begin"}
Clauses == {"t", "select", "join", "subq", "subq_sp", "over", "over_sp", "cte",
            "updated_at"}

UpperCase == <<"A","B","C","D","E","F","G","H","I","J","K","L","M",
               "N","O","P","Q","R","S","T","U","V","W","X","Y","Z">>
LowerCase == <<"a","b","c","d","e","f","g","h","i","j","k","l","m",
               "n","o","p","q","r","s","t","u","v","w","x","y","z">>

\* String.prototype.toLowerCase on one character
toLowerCaseChar(c) ==
    IF \E i \in 1..26 : UpperCase[i] = c
    THEN LowerCase[CHOOSE i \in 1..26 : UpperCase[i] = c]
    ELSE c

toLowerCase(s) == [i \in 1..Len(s) |-> toLowerCaseChar(s[i])]

RECURSIVE JoinWords(_)
JoinWords(toks) ==
    IF toks = <<>> THEN <<>>
    ELSE IF Len(toks) = 1 THEN Word[toks[1]]
    ELSE Word[toks[1]] \o <<" ">> \o JoinWords(Tail(toks))

\* the characters of a statement, without its trailing filler
Chars(txt) == JoinWords(txt.toks)
\* String.prototype.length
Length(txt) == Len(Chars(txt)) + txt.pad

\* String.prototype.includes
includes(s, k) ==
    \E i \in 1..(Len(s) - Len(k) + 1) : SubSeq(s, i, i + Len(k) - 1) = k

StartsAt(s, i, k) ==
    /\ i + Len(k) - 1 <= Len(s)
    /\ SubSeq(s, i, i + Len(k) - 1) = k

\* (s.match(/k/g) || []).length for a literal k: leftmost matches, no overlap
RECURSIVE CountLiteral(_, _, _)
CountLiteral(s, k, i) ==
    IF i > Len(s) THEN 0
    ELSE IF StartsAt(s, i, k) THEN 1 + CountLiteral(s, k, i + Len(k))
    ELSE CountLiteral(s, k, i + 1)

IsSpace(c) == c = " "
IsWordChar(c) ==
    \/ \E i \in 1..26 : LowerCase[i] = c \/ UpperCase[i] = c
    \/ c \in {"_", "0", "1", "2", "3", "4", "5", "6", "7", "8", "9"}

\* first index at or after i whose character is not in the class
RECURSIVE SkipSpaces(_, _)
SkipSpaces(s, i) ==
    IF i <= Len(s) /\ IsSpace(s[i]) THEN SkipSpaces(s, i + 1) ELSE i
RECURSIVE SkipWordChars(_, _)
SkipWordChars(s, i) ==
    IF i <= Len(s) /\ IsWordChar(s[i]) THEN SkipWordChars(s, i + 1) ELSE i

\* end (one past the last character) of a match of /with\s+\w+\s+as/i that
\* starts at i, or 0.  \s and \w are disjoint, so each run is maximal.
CteMatchEnd(s, i) ==
    LET a == i + 4
        b == SkipSpaces(s, a)
        c == SkipWordChars(s, b)
        d == SkipSpaces(s, c)
    IN  IF /\ StartsAt(s, i, <<"w","i","t","h">>)
           /\ b > a /\ c > b /\ d > c
           /\ StartsAt(s, d, <<"a","s">>)
        THEN d + 2 ELSE 0

RECURSIVE CountCte(_, _)
CountCte(s, i) ==
    IF i > Len(s) THEN 0
    ELSE IF CteMatchEnd(s, i) > 0 THEN 1 + CountCte(s, CteMatchEnd(s, i))
    ELSE CountCte(s, i + 1)

\* end of a match of /over\s*\(/i that starts at i, or 0
OverMatchEnd(s, i) ==
    LET b == SkipSpaces(s, i + 4)
    IN  IF StartsAt(s, i, <<"o","v","e","r">>) /\ StartsAt(s, b, <<"(">>)
        THEN b + 1 ELSE 0

RECURSIVE CountOver(_, _)
CountOver(s, i) ==
    IF i > Len(s) THEN 0
    ELSE IF OverMatchEnd(s, i) > 0 THEN 1 + CountOver(s, OverMatchEnd(s, i))
    ELSE CountOver(s, i + 1)

\* the literals the classifiers look for with includes()
Kw == [
    select        |-> <<"s","e","l","e","c","t">>,
    join          |-> <<"j","o","i","n">>,
    insert        |-> <<"i","n","s","e","r","t">>,
    update        |-> <<"u","p","d","a","t","e">>,
    delete        |-> <<"d","e","l","e","t","e">>,
    create        |-> <<"c","r","e","a","t","e">>,
    alter         |-> <<"a","l","t","e","r">>,
    drop          |-> <<"d","r","o","p">>,
    subq          |-> <<"(","s","e","l","e","c","t">>,
    subq_sp       |-> <<"("," ","s","e","l","e","c","t">>,
    group_concat  |-> <<"g","r","o","u","p","_","c","o","n","c","a","t">>,
    json_         |-> <<"j","s","o","n","_">>,
    window        |-> <<"w","i","n","d","o","w">>,
    over_paren    |-> <<"o","v","e","r","(">>,
    with          |-> <<"w","i","t","h">>,
    array_        |-> <<"a","r","r","a","y","_">>,
    regexp_       |-> <<"r","e","g","e","x","p","_">>,
    similar_to    |-> <<"s","i","m","i","l","a","r"," ","t","o">>,
    full_text     |-> <<"f","u","l","l"," ","t","e","x","t">>,
    ts_           |-> <<"t","s","_">>,
    exec          |-> <<"e","x","e","c">>,
    execute       |-> <<"e","x","e","c","u","t","e">>,
    row_number    |-> <<"r","o","w","_","n","u","m","b","e","r","(",")">>,
    rank          |-> <<"r","a","n","k","(",")">>,
    dense_rank    |-> <<"d","e","n","s","e","_","r","a","n","k","(",")">>,
    pivot         |-> <<"p","i","v","o","t">>,
    unpivot       |-> <<"u","n","p","i","v","o","t">>,
    merge         |-> <<"m","e","r","g","e">>,
    apply         |-> <<"a","p","p","l","y">>,
    begin         |-> <<"b","e","g","i","n">>,
    declare       |-> <<"d","e","c","l","a","r","e">>,
    call          |-> <<"c","a","l","l">>,
    connect_by    |-> <<"c","o","n","n","e","c","t"," ","b","y">>,
    start_with    |-> <<"s","t","a","r","t"," ","w","i","t","h">>,
    model         |-> <<"m","o","d","e","l">>,
    flashback     |-> <<"f","l","a","s","h","b","a","c","k">> ]

ClauseSeqs(n) == UNION {[1..k -> Clauses] : k \in 0..n}
\* the word sequences of the statements of the model
Statements == {<<v>> \o c : v \in Verbs, c \in ClauseSeqs(MaxTokens - 1)}

\* what the classifiers read off sql = text.toLowerCase(): includes() of each
\* literal and the match counts of the four regular expressions
ScanText(toks) ==
    LET sql == toLowerCase(JoinWords(toks))
    IN  [ has       |-> [k \in DOMAIN Kw |-> includes(sql, Kw[k])],
          joinCount |-> CountLiteral(sql, Kw.join, 1),
          subqCount |-> CountLiteral(sql, Kw.subq, 1),
          cteCount  |-> CountCte(sql, 1),
          overCount |-> CountOver(sql, 1) ]

\* the statement with one more join at its end
Joined(toks) == toks \o <<"join">>

\* ScanText of every statement of the model, and of each with one more
\* join, computed once
Scanned == [toks \in Statements \cup {Joined(s) : s \in Statements} |->
               ScanText(toks)]

Scan(txt) ==
    IF txt.toks \in DOMAIN Scanned THEN Scanned[txt.toks] ELSE ScanText(txt.toks)

(***************************************************************************)
(* JavaScript values.  A property value is its typeof tag t ("array" for   *)
(* a value Array.isArray accepts), a number n (the value of a number, the  *)
(* length of an array, the number of own keys of an object) and a string s *)
(* (the content of a string, the shape of a nested object).                *)
(***************************************************************************)
Undef == [t |-> "undefined", n |-> 0, s |-> ""]
Str(x) == [t |-> "string", n |-> 0, s |-> x]
Num(x) == [t |-> "number", n |-> x, s |-> ""]
Fn == [t |-> "function", n |-> 0, s |-> ""]
Arr(len) == [t |-> "array", n |-> len, s |-> ""]
Obj(keys, shape) == [t |-> "object", n |-> keys, s |-> shape]
\* the first of k own properties that no recognizer reads: random: 'data'
Unread(k) == [t |-> "string", n |-> k, s |-> "data"]

\* ToBoolean
Truthy(v) ==
    CASE v.t = "undefined" -> FALSE
      [] v.t = "string" -> v.s # ""
      [] v.t = "number" -> v.n # 0
      [] OTHER -> TRUE

\* the falsy value itself, as `a && b` returns it
FalsyTag(v) ==
    CASE v.t = "undefined" -> "undefined"
      [] v.t = "string" -> "''"
      [] OTHER -> "0"

Families == {"prisma", "typeorm", "mysql", "postgresql", "sqlserver", "oracle",
             "mongodb"}

Fields == {"sql", "text", "query", "values", "parameters", "bindParams",
           "code", "errno", "sqlMessage", "message", "number",
           "connect", "end", "close", "getConnection", "execute", "commit",
           "rollback", "model", "action", "args", "$connect", "$disconnect",
           "$queryRaw", "constructor.name", "id", "find", "findOne", "save",
           "isConnected", "queryType", "joins", "metadata",
           "collection", "operation", "filter", "projection", "update",
           "pipeline", "stages", "codeName", "writeErrors",
           "writeConcernErrors", "sort", "limit", "skip", "random",
           "config", "connectionConfig", "connectionParameters", "options"}

\* the names of the constructors of the model's objects
CtorName == [
    Object     |-> <<"O","b","j","e","c","t">>,
    UserEntity |-> <<"U","s","e","r","E","n","t","i","t","y">>,
    UserModel  |-> <<"U","s","e","r","M","o","d","e","l">> ]

\* the args objects of the Prisma queries of the model, by shape; whereKeys
\* is Object.keys(args.where).length, -1 when args.where is not an object
ArgsShape == [
    empty |-> [include |-> FALSE, select |-> FALSE, whereKeys |-> -1,
               orderBy |-> FALSE, take |-> FALSE, skip |-> FALSE,
               distinct |-> FALSE],
    where1 |-> [include |-> FALSE, select |-> FALSE, whereKeys |-> 1,
               orderBy |-> FALSE, take |-> FALSE, skip |-> FALSE,
               distinct |-> FALSE],
    where4include |-> [include |-> TRUE, select |-> FALSE, whereKeys |-> 4,
               orderBy |-> TRUE, take |-> TRUE, skip |-> FALSE,
               distinct |-> FALSE] ]

\* the properties of the nested objects of the model that a projector or a
\* reader of the result looks at, by shape: the password and the connection
\* string of a connection config, the password a filter selects on
Nested(v) ==
    IF v.t = "object" /\ v.s = "credentials"
    THEN [password |-> Str("hunter2"), connectString |-> Str("scott/tiger@db")]
    ELSE IF v.t = "object" /\ v.s = "filter"
    THEN [password |-> Str("hunter2"), connectString |-> Undef]
    ELSE [password |-> Undef, connectString |-> Undef]

EmptyText == [toks |-> <<>>, pad |-> 0]

\* an own property every plain object inherits: constructor is Object
Default(x) == IF x = "constructor.name" THEN Str("Object") ELSE Undef

P(name, val) == [name |-> name, val |-> val]

\* the object with the given properties (a set of P(name, val) with distinct
\* names) whose SQL text, if it has one, is txt
MakeObject(props, txt) ==
    [ kind |-> "object",
      fld  |-> [x \in Fields |->
                  IF \E e \in props : e.name = x
                  THEN (CHOOSE e \in props : e.name = x).val
                  ELSE Default(x)],
      txt  |-> txt ]

\* a payload that is not an object: null, undefined, 0, 7, '', 'abc'
Primitive(kind) ==
    [kind |-> kind, fld |-> [x \in Fields |-> Undef], txt |-> EmptyText]

Primitives == {Primitive(k) : k \in {"null", "undefined", "zero", "number",
                                      "emptystring", "string"}}

\* ToBoolean of a payload
TruthyData(d) == d.kind \in {"object", "number", "string"}
\* the falsy payload itself, as `data && ...` returns it
FalsyData(d) ==
    CASE d.kind = "null" -> "null"
      [] d.kind = "undefined" -> "undefined"
      [] d.kind = "zero" -> "0"
      [] OTHER -> "''"

\* typeof data.x === t, and data.x (undefined on a primitive)
Get(d, x) == IF d.kind = "object" THEN d.fld[x] ELSE Undef
TypeOf(d, x) == LET v == Get(d, x) IN IF v.t = "array" THEN "object" ELSE v.t
IsArray(d, x) == Get(d, x).t = "array"
IsUndefined(d, x) == Get(d, x).t = "undefined"

(***************************************************************************)
(* Payload recognizers.  Each returns what the JavaScript expression       *)
(* returns: "true", "false", the falsy operand `&&` stopped at ("null",    *)
(* "undefined", "0", "''"), or "fault" when evaluating it throws.          *)
(***************************************************************************)
\* data && typeof data === 'object' && c, for a boolean c
Guarded(d, c) ==
    IF ~TruthyData(d) THEN FalsyData(d)
    ELSE IF d.kind # "object" THEN "false"
    ELSE IF c THEN "true" ELSE "false"

IsFn(d, x) == TypeOf(d, x) = "function"
IsStr(d, x) == TypeOf(d, x) = "string"
IsNum(d, x) == TypeOf(d, x) = "number"
UndefOrArray(d, x) == IsUndefined(d, x) \/ IsArray(d, x)

isMySQLQuery(d) == Guarded(d, IsStr(d, "sql") /\ UndefOrArray(d, "values"))
isMySQLError(d) ==
    Guarded(d, IsStr(d, "code") /\ IsNum(d, "errno") /\ IsStr(d, "sqlMessage"))
isMySQLConnection(d) ==
    Guarded(d, IsFn(d, "query") /\ IsFn(d, "connect") /\ IsFn(d, "end"))
isMySQLPool(d) ==
    Guarded(d, IsFn(d, "getConnection") /\ IsFn(d, "query") /\ IsFn(d, "end"))

isPostgreSQLQuery(d) == Guarded(d, IsStr(d, "text") /\ UndefOrArray(d, "values"))
isPostgreSQLError(d) == Guarded(d, IsStr(d, "code") /\ IsStr(d, "message"))
isPostgreSQLClient(d) ==
    Guarded(d, IsFn(d, "query") /\ IsFn(d, "connect") /\ IsFn(d, "end"))
isPostgreSQLPool(d) ==
    Guarded(d, IsFn(d, "connect") /\ IsFn(d, "query") /\ IsFn(d, "end"))

isSQLServerQuery(d) ==
    Guarded(d, IsStr(d, "query") /\ UndefOrArray(d, "parameters"))
isSQLServerError(d) ==
    Guarded(d, IsStr(d, "code") /\ IsNum(d, "number") /\ IsStr(d, "message"))
isSQLServerConnection(d) ==
    Guarded(d, IsFn(d, "query") /\ IsFn(d, "connect") /\ IsFn(d, "close"))
isSQLServerPool(d) ==
    Guarded(d, IsFn(d, "connect") /\ IsFn(d, "query") /\ IsFn(d, "close"))

isOracleQuery(d) == Guarded(d, IsStr(d, "sql") /\ UndefOrArray(d, "bindParams"))
isOracleError(d) == Guarded(d, IsNum(d, "code") /\ IsStr(d, "message"))
isOracleConnection(d) ==
    Guarded(d, IsFn(d, "execute") /\ IsFn(d, "commit") /\ IsFn(d, "rollback"))
isOraclePool(d) ==
    Guarded(d, IsFn(d, "getConnection") /\ IsFn(d, "execute") /\ IsFn(d, "close"))

isPrismaQuery(d) == Guarded(d, IsStr(d, "model") /\ IsStr(d, "action"))
isPrismaError(d) == Guarded(d, IsStr(d, "code") /\ IsStr(d, "message"))
isPrismaClient(d) ==
    Guarded(d, IsFn(d, "$connect") /\ IsFn(d, "$disconnect")
               /\ IsFn(d, "$queryRaw"))

isTypeORMQuery(d) == Guarded(d, IsStr(d, "sql") /\ UndefOrArray(d, "parameters"))
isTypeORMError(d) ==
    Guarded(d, IsStr(d, "message") /\ (IsUndefined(d, "code") \/ IsStr(d, "code")))
\* data.constructor.name.includes(...) throws when the name is truthy and is
\* not a string
isTypeORMEntity(d) ==
    LET name == Get(d, "constructor.name")
    IN  IF ~TruthyData(d) THEN FalsyData(d)
        ELSE IF d.kind # "object" THEN "false"
        ELSE IF ~Truthy(name) THEN FalsyTag(name)
        ELSE IF name.t # "string" THEN "fault"
        ELSE IF \/ includes(CtorName[name.s], <<"E","n","t","i","t","y">>)
                \/ includes(CtorName[name.s], <<"M","o","d","e","l">>)
                \/ ~IsUndefined(d, "id")
             THEN "true" ELSE "false"
isTypeORMRepository(d) ==
    Guarded(d, IsFn(d, "find") /\ IsFn(d, "findOne") /\ IsFn(d, "save"))
isTypeORMConnection(d) == Guarded(d, IsFn(d, "isConnected") /\ IsFn(d, "close"))

\* the MongoDB recognizers do not test typeof data
isMongoDBQuery(d) ==
    IF ~TruthyData(d) THEN FalsyData(d)
    ELSE IF \E x \in {"collection", "operation", "filter", "projection", "update"} :
               ~IsUndefined(d, x)
         THEN "true" ELSE "false"
isMongoDBAggregation(d) ==
    IF ~TruthyData(d) THEN FalsyData(d)
    ELSE IF ~IsUndefined(d, "pipeline") \/ ~IsUndefined(d, "stages")
         THEN "true" ELSE "false"
isMongoDBError(d) ==
    LET message == Get(d, "message")
    IN  IF ~TruthyData(d) THEN FalsyData(d)
        ELSE IF \E x \in {"code", "codeName", "writeErrors", "writeConcernErrors"} :
                   ~IsUndefined(d, x)
             THEN "true"
        ELSE IF ~Truthy(message) THEN FalsyTag(message)
        ELSE IF message.t = "string" THEN "true" ELSE "false"

\* the recognizer of variant v of family f
Recognize(f, v, d) ==
    CASE f = "mysql" /\ v = "MySQLQuery" -> isMySQLQuery(d)
      [] f = "mysql" /\ v = "MySQLError" -> isMySQLError(d)
      [] f = "mysql" /\ v = "MySQLConnection" -> isMySQLConnection(d)
      [] f = "mysql" /\ v = "MySQLPool" -> isMySQLPool(d)
      [] f = "postgresql" /\ v = "PostgreSQLQuery" -> isPostgreSQLQuery(d)
      [] f = "postgresql" /\ v = "PostgreSQLError" -> isPostgreSQLError(d)
      [] f = "postgresql" /\ v = "PostgreSQLClient" -> isPostgreSQLClient(d)
      [] f = "postgresql" /\ v = "PostgreSQLPool" -> isPostgreSQLPool(d)
      [] f = "sqlserver" /\ v = "SQLServerQuery" -> isSQLServerQuery(d)
      [] f = "sqlserver" /\ v = "SQLServerError" -> isSQLServerError(d)
      [] f = "sqlserver" /\ v = "SQLServerConnection" -> isSQLServerConnection(d)
      [] f = "sqlserver" /\ v = "SQLServerPool" -> isSQLServerPool(d)
      [] f = "oracle" /\ v = "OracleQuery" -> isOracleQuery(d)
      [] f = "oracle" /\ v = "OracleError" -> isOracleError(d)
      [] f = "oracle" /\ v = "OracleConnection" -> isOracleConnection(d)
      [] f = "oracle" /\ v = "OraclePool" -> isOraclePool(d)
      [] f = "prisma" /\ v = "PrismaQuery" -> isPrismaQuery(d)
      [] f = "prisma" /\ v = "PrismaError" -> isPrismaError(d)
      [] f = "prisma" /\ v = "PrismaClient" -> isPrismaClient(d)
      [] f = "typeorm" /\ v = "TypeORMQuery" -> isTypeORMQuery(d)
      [] f = "typeorm" /\ v = "TypeORMError" -> isTypeORMError(d)
      [] f = "typeorm" /\ v = "TypeORMEntity" -> isTypeORMEntity(d)
      [] f = "typeorm" /\ v = "TypeORMRepository" -> isTypeORMRepository(d)
      [] f = "typeorm" /\ v = "TypeORMConnection" -> isTypeORMConnection(d)
      [] f = "mongodb" /\ v = "MongoDBQuery" -> isMongoDBQuery(d)
      [] f = "mongodb" /\ v = "MongoDBAggregation" -> isMongoDBAggregation(d)
      [] f = "mongodb" /\ v = "MongoDBError" -> isMongoDBError(d)

\* the variants in the order the if / else-if chain of serialize tests them
SerializeOrder(f) ==
    CASE f = "mysql" ->
           <<"MySQLQuery", "MySQLError", "MySQLConnection", "MySQLPool">>
      [] f = "postgresql" ->
           <<"PostgreSQLQuery", "PostgreSQLError", "PostgreSQLClient",
             "PostgreSQLPool">>
      [] f = "sqlserver" ->
           <<"SQLServerQuery", "SQLServerError", "SQLServerConnection",
             "SQLServerPool">>
      [] f = "oracle" ->
           <<"OracleQuery", "OracleError", "OracleConnection", "OraclePool">>
      [] f = "prisma" -> <<"PrismaQuery", "PrismaError", "PrismaClient">>
      [] f = "typeorm" ->
           <<"TypeORMQuery", "TypeORMError", "TypeORMEntity",
             "TypeORMRepository", "TypeORMConnection">>
      [] f = "mongodb" -> <<"MongoDBQuery", "MongoDBAggregation", "MongoDBError">>

\* a getComplexity that tests the variants from the last to the first
ComplexityOrder_Reversed(f) ==
    [i \in 1..Len(SerializeOrder(f)) |->
        SerializeOrder(f)[Len(SerializeOrder(f)) + 1 - i]]

\* the variants in the order the if chain of getComplexity tests them
ComplexityOrder(f) ==
    CASE f = "mysql" ->
           <<"MySQLQuery", "MySQLError", "MySQLConnection", "MySQLPool">>
      [] f = "postgresql" ->
           <<"PostgreSQLQuery", "PostgreSQLError", "PostgreSQLClient",
             "PostgreSQLPool">>
      [] f = "sqlserver" ->
           <<"SQLServerQuery", "SQLServerError", "SQLServerConnection",
             "SQLServerPool">>
      [] f = "oracle" ->
           <<"OracleQuery", "OracleError", "OracleConnection", "OraclePool">>
      [] f = "prisma" -> <<"PrismaQuery", "PrismaError", "PrismaClient">>
      [] f = "typeorm" ->
           <<"TypeORMQuery", "TypeORMError", "TypeORMEntity",
             "TypeORMRepository", "TypeORMConnection">>
      [] f = "mongodb" -> <<"MongoDBQuery", "MongoDBAggregation", "MongoDBError">>

\* an if / else-if chain over the recognizers: the first variant whose
\* recognizer returns a truthy value, "none" when all are falsy, "fault" when
\* a recognizer throws before one accepts
RECURSIVE FirstMatch(_, _, _, _)
FirstMatch(f, order, i, d) ==
    IF i > Len(order) THEN "none"
    ELSE LET r == Recognize(f, order[i], d)
         IN  IF r = "fault" THEN "fault"
             ELSE IF r = "true" THEN order[i]
             ELSE FirstMatch(f, order, i + 1, d)

\* canSerialize: a || b || c || d returns its first truthy operand, else the
\* last operand
RECURSIVE OrChain(_, _, _, _)
OrChain(f, order, i, d) ==
    LET r == Recognize(f, order[i], d)
    IN  IF r = "fault" \/ r = "true" \/ i = Len(order) THEN r
        ELSE OrChain(f, order, i + 1, d)

canSerialize(f, d) == OrChain(f, SerializeOrder(f), 1, d)

(***************************************************************************)
(* Complexity classifiers.                                                 *)
(***************************************************************************)
SqlTextFamilies == {"mysql", "postgresql", "sqlserver", "oracle", "typeorm"}
KeywordFamilies == {"mysql", "postgresql", "sqlserver", "oracle"}

\* the property that holds the statement text, and the one that holds its
\* parameters
TextField(f) ==
    CASE f = "postgresql" -> "text" [] f = "sqlserver" -> "query" [] OTHER -> "sql"
ParamField(f) ==
    CASE f \in {"mysql", "postgresql"} -> "values"
      [] f = "oracle" -> "bindParams"
      [] OTHER -> "parameters"

B(c, w) == IF c THEN w ELSE 0

\* "Basado en el tipo de operacion": the first branch of the chain that
\* applies adds its weight
OpWeight(f, d) ==
    IF f = "typeorm"
    THEN LET queryType == Get(d, "queryType")
         IN  IF queryType = Str("SELECT") THEN 1
             ELSE IF queryType = Str("INSERT") THEN 2
             ELSE IF queryType = Str("UPDATE") THEN 3
             ELSE IF queryType = Str("DELETE") THEN 3
             ELSE 0
    ELSE LET has == Scan(d.txt).has
         IN  IF has.select /\ ~has.join THEN 1
             ELSE IF has.insert THEN 2
             ELSE IF has.update THEN 3
             ELSE IF has.delete THEN 3
             ELSE IF has.create \/ has.alter \/ has.drop THEN 4
             ELSE 0

\* a classifier that gives joins no weight
JoinScore_Ignored(f, d) == 0

\* "Basado en joins"
JoinScore(f, d) ==
    IF f = "typeorm"
    THEN LET joins == Get(d, "joins")
         IN  B(Truthy(joins) /\ joins.n > 0, joins.n * 2)
    ELSE LET sc == Scan(d.txt) IN B(sc.has.join, sc.joinCount * 2)

\* "Basado en subqueries"
SubqueryScore(f, d) ==
    IF f = "typeorm" THEN 0
    ELSE LET sc == Scan(d.txt)
         IN  B(sc.has.subq \/ sc.has.subq_sp, sc.subqCount * 3)

\* "Basado en CTEs"
CteScore(f, d) ==
    IF f \in {"postgresql", "sqlserver", "oracle"}
    THEN LET sc == Scan(d.txt) IN B(sc.has.with, sc.cteCount * 3)
    ELSE 0

\* "Basado en window functions"
WindowScore(f, d) ==
    LET sc == Scan(d.txt)
    IN  CASE f = "mysql" -> B(sc.has.window \/ sc.has.over_paren, 3)
          [] f \in {"postgresql", "sqlserver", "oracle"} ->
               B(sc.has.over_paren, sc.overCount * 2)
          [] OTHER -> 0

\* the dialect-specific constructs and functions
DialectScore(f, d) ==
    LET has == Scan(d.txt).has
    IN  CASE f = "mysql" -> B(has.group_concat \/ has.json_, 2)
          [] f = "postgresql" ->
               B(has.json_ \/ has.array_, 2) + B(has.regexp_ \/ has.similar_to, 2)
               + B(has.full_text \/ has.ts_, 3)
          [] f = "sqlserver" ->
               B(has.exec \/ has.execute, 3)
               + B(has.row_number \/ has.rank \/ has.dense_rank, 2)
               + B(has.pivot \/ has.unpivot, 3) + B(has.merge, 3)
               + B(has.apply, 2)
          [] f = "oracle" ->
               B(has.begin \/ has.declare, 4) + B(has.call \/ has.execute, 3)
               + B(has.connect_by \/ has.start_with, 3)
               + B(has.pivot \/ has.unpivot, 3) + B(has.merge, 3)
               + B(has.model, 4) + B(has.flashback, 2)
          [] OTHER -> 0

\* the length tiers with their limits included
LengthBonus_Inclusive(f, len) ==
    IF f = "typeorm"
    THEN IF len >= 500 THEN 2 ELSE IF len >= 200 THEN 1 ELSE 0
    ELSE IF len >= 1000 THEN 3 ELSE IF len >= 500 THEN 2
         ELSE IF len >= 200 THEN 1 ELSE 0
\* "Basado en la longitud del SQL"
LengthBonus(f, len) ==
    IF f = "typeorm"
    THEN IF len > 500 THEN 2 ELSE IF len > 200 THEN 1 ELSE 0
    ELSE IF len > 1000 THEN 3 ELSE IF len > 500 THEN 2
         ELSE IF len > 200 THEN 1 ELSE 0

\* "Basado en parametros": params is the parameter array or undefined
ParamBonus(f, params) ==
    IF f = "typeorm"
    THEN IF Truthy(params) /\ params.n > 10 THEN 2
         ELSE IF Truthy(params) /\ params.n > 5 THEN 1 ELSE 0
    ELSE IF Truthy(params) /\ params.n > 20 THEN 2
         ELSE IF Truthy(params) /\ params.n > 10 THEN 1 ELSE 0

\* the final thresholds of a classifier
Bucket(f, complexity) ==
    IF f \in {"typeorm", "prisma"}
    THEN IF complexity >= 6 THEN "high"
         ELSE IF complexity >= 3 THEN "medium" ELSE "low"
    ELSE IF complexity >= 8 THEN "high"
         ELSE IF complexity >= 4 THEN "medium" ELSE "low"

\* what each block of assessQueryComplexity adds to `complexity`, for a
\* payload the Query recognizer of an SQL text family accepted
QueryParts(f, d) ==
    [ op       |-> OpWeight(f, d),
      cte      |-> CteScore(f, d),
      window   |-> WindowScore(f, d),
      join     |-> JoinScore(f, d),
      subquery |-> SubqueryScore(f, d),
      dialect  |-> DialectScore(f, d),
      length   |-> LengthBonus(f, Length(d.txt)),
      params   |-> ParamBonus(f, Get(d, ParamField(f))) ]

Total(p) ==
    p.op + p.cte + p.window + p.join + p.subquery + p.dialect + p.length
    + p.params

Min(a, b) == IF a < b THEN a ELSE b

\* PrismaSerializer.assessQueryComplexity
PrismaScore(d) ==
    LET action == Get(d, "action").s
        args == Get(d, "args")
        a == ArgsShape[args.s]
    IN  (CASE action \in {"findMany", "findFirst", "findUnique", "count"} -> 1
           [] action \in {"create", "update", "delete"} -> 2
           [] action \in {"updateMany", "deleteMany", "upsert"} -> 3
           [] action \in {"aggregate", "groupBy"} -> 4
           [] OTHER -> 0)
        + (IF Truthy(args) /\ args.t = "object"
           THEN B(a.include, 2) + B(a.select, 1)
                + B(a.whereKeys >= 0, Min(a.whereKeys, 3))
                + B(a.orderBy, 1) + B(a.take, 1) + B(a.skip, 1)
                + B(a.distinct, 1)
           ELSE 0)

\* MongoDBSerializer.assessQueryComplexity
MongoQueryScore(d) ==
    LET operation == Get(d, "operation")
        filter == Get(d, "filter")
        update == Get(d, "update")
    IN  (CASE operation \in {Str("find"), Str("findOne")} -> 1
           [] operation \in {Str("insertOne"), Str("updateOne"), Str("deleteOne"),
                             Str("replaceOne")} -> 2
           [] operation \in {Str("insertMany"), Str("updateMany"),
                             Str("deleteMany")} -> 3
           [] operation = Str("bulkWrite") -> 4
           [] OTHER -> 0)
        + B(Truthy(filter) /\ TypeOf(d, "filter") = "object", Min(filter.n, 3))
        + B(Truthy(Get(d, "projection")), 1) + B(Truthy(Get(d, "sort")), 1)
        + B(Truthy(Get(d, "limit")), 1) + B(Truthy(Get(d, "skip")), 1)
        + B(Truthy(update) /\ TypeOf(d, "update") = "object", Min(update.n, 2))

MongoBucket(complexity) ==
    IF complexity >= 6 THEN "high"
    ELSE IF complexity >= 3 THEN "medium" ELSE "low"

\* MongoDBSerializer.assessAggregationComplexity
assessAggregationComplexity(d) ==
    LET complexity == B(IsArray(d, "pipeline"), Get(d, "pipeline").n)
                      + B(IsArray(d, "stages"), Get(d, "stages").n)
    IN  IF complexity >= 8 THEN "high"
        ELSE IF complexity >= 4 THEN "medium" ELSE "low"

\* TypeORMSerializer.assessEntityComplexity: by Object.keys(entity).length
assessEntityComplexity(d) ==
    LET keys == Cardinality({x \in Fields \ {"constructor.name", "random"} :
                               ~IsUndefined(d, x)})
                + Get(d, "random").n
    IN  IF keys > 20 THEN "high" ELSE IF keys > 10 THEN "medium" ELSE "low"

assessQueryComplexity(f, d) ==
    CASE f \in SqlTextFamilies -> Bucket(f, Total(QueryParts(f, d)))
      [] f = "prisma" -> Bucket(f, PrismaScore(d))
      [] f = "mongodb" -> MongoBucket(MongoQueryScore(d))

\* the value the branch of getComplexity for variant v returns
VariantComplexity(f, v, d) ==
    CASE v \in {"MySQLQuery", "PostgreSQLQuery", "SQLServerQuery", "OracleQuery",
                "PrismaQuery", "TypeORMQuery", "MongoDBQuery"} ->
             assessQueryComplexity(f, d)
      [] v = "MongoDBAggregation" -> assessAggregationComplexity(d)
      [] v = "TypeORMEntity" -> assessEntityComplexity(d)
      [] v \in {"MySQLPool", "PostgreSQLPool", "SQLServerPool", "OraclePool",
                "TypeORMRepository"} -> "medium"
      [] OTHER -> "low"

\* getComplexity: "fault" when a recognizer throws
getComplexity(f, d) ==
    LET v == FirstMatch(f, ComplexityOrder(f), 1, d)
    IN  IF v = "fault" THEN "fault"
        ELSE IF v = "none" THEN "low"
        ELSE VariantComplexity(f, v, d)

(***************************************************************************)
(* The payloads of the model: the primitives, and every object that has    *)
(* at most MaxFields of the properties below.                              *)
(***************************************************************************)
Catalog(f) ==
    CASE f = "mysql" ->
           {P("sql", Str("sql")), P("values", Arr(1)), P("values", Str("x")),
            P("code", Str("ER_DUP_ENTRY")), P("errno", Num(1062)),
            P("sqlMessage", Str("Duplicate entry")), P("query", Fn),
            P("connect", Fn), P("end", Fn), P("getConnection", Fn),
            P("connectionConfig", Obj(5, "credentials")),
            P("config", Obj(5, "credentials")), P("random", Unread(1))}
      [] f = "postgresql" ->
           {P("text", Str("sql")), P("values", Arr(1)), P("code", Str("23505")),
            P("code", Num(23505)), P("message", Str("duplicate key")),
            P("query", Fn), P("connect", Fn), P("end", Fn),
            P("config", Obj(5, "credentials")),
            P("connectionParameters", Obj(5, "credentials")),
            P("random", Unread(1))}
      [] f = "sqlserver" ->
           {P("query", Str("sql")), P("query", Fn), P("parameters", Arr(1)),
            P("code", Str("EREQUEST")), P("number", Num(2627)),
            P("message", Str("Violation")), P("connect", Fn), P("close", Fn),
            P("config", Obj(5, "credentials")), P("random", Unread(1))}
      [] f = "oracle" ->
           {P("sql", Str("sql")), P("bindParams", Arr(1)), P("code", Num(942)),
            P("code", Str("ORA-00942")), P("message", Str("no table")),
            P("execute", Fn), P("commit", Fn), P("rollback", Fn),
            P("getConnection", Fn), P("close", Fn),
            P("config", Obj(6, "credentials")), P("random", Unread(1))}
      [] f = "prisma" ->
           {P("model", Str("User")), P("action", Str("findFirst")),
            P("action", Str("aggregate")), P("args", Obj(4, "where4include")),
            P("code", Str("P2002")), P("message", Str("Unique constraint")),
            P("$connect", Fn), P("$disconnect", Fn), P("$queryRaw", Fn),
            P("random", Unread(1))}
      [] f = "typeorm" ->
           {P("sql", Str("sql")), P("parameters", Arr(1)),
            P("message", Str("failed")), P("code", Str("23505")),
            P("id", Num(1)), P("find", Fn), P("findOne", Fn), P("save", Fn),
            P("isConnected", Fn), P("close", Fn),
            P("constructor.name", Str("UserEntity")),
            P("constructor.name", Num(123)),
            P("metadata", Obj(1, "columnsNotArray")),
            P("random", Unread(11))}
      [] f = "mongodb" ->
           {P("collection", Str("users")), P("operation", Str("find")),
            P("filter", Obj(4, "filter")), P("pipeline", Arr(9)),
            P("stages", Arr(1)), P("code", Num(11000)),
            P("message", Str("E11000")), P("message", Str("")),
            P("random", Unread(1))}

\* the statement texts of the payloads of the pipeline: a short select, and
\* a long create with a subquery
PipelineTexts ==
    { [toks |-> <<"SELECT">>, pad |-> 0],
      [toks |-> <<"create", "subq">>, pad |-> 1000] }

HasText(f, props) ==
    /\ f \in SqlTextFamilies
    /\ \E e \in props : e.name = TextField(f) /\ e.val.t = "string"

ObjectsOf(f) ==
    UNION { {MakeObject(props, txt) :
                txt \in IF HasText(f, props) THEN PipelineTexts ELSE {EmptyText}} :
            props \in {S \in SUBSET Catalog(f) :
                          /\ Cardinality(S) <= MaxFields
                          /\ \A a, b \in S : a.name = b.name => a = b} }

\* a MySQLError as the interface declares it: code, errno, sqlMessage and
\* the statement that failed
ErrorRecords(f) ==
    IF f = "mysql"
    THEN {MakeObject({P("code", Str("ER_DUP_ENTRY")), P("errno", Num(1062)),
                      P("sqlMessage", Str("Duplicate entry")),
                      P("sql", Str("sql"))}, txt) : txt \in PipelineTexts}
    ELSE {}

Payloads == [f \in Families |-> Primitives \cup ObjectsOf(f) \cup ErrorRecords(f)]

\* SerializationContext: timeout is undefined, or a number of milliseconds
Contexts ==
    {[timeout |-> Undef], [timeout |-> Num(0)], [timeout |-> Num(5)],
     [timeout |-> Num(100)]}

\* what Date.now() returns when serialize starts, and the milliseconds that
\* pass until the try block, and then the catch clause, read the clock again
StartTimes == {1000}
TryDelays == {0, 5, 6, 10, 11, 50, 51, 100, 101}
CatchDelays == {0, 1}

(***************************************************************************)
(* serialize                                                               *)
(***************************************************************************)
DefaultTimeout == 50
UnwrapTimeout == 10

name(f) == f
DisplayName(f) ==
    CASE f = "mysql" -> "MySQL" [] f = "postgresql" -> "PostgreSQL"
      [] f = "sqlserver" -> "SQL Server" [] f = "oracle" -> "Oracle"
      [] f = "prisma" -> "Prisma" [] f = "typeorm" -> "TypeORM"
      [] f = "mongodb" -> "MongoDB"

\* the limit the try block compares duration with: context.timeout || 50 in
\* MySQLSerializer and PostgreSQLSerializer, the literal 10 in the others
Timeout(f, c) ==
    IF f \in {"mysql", "postgresql"}
    THEN IF Truthy(c.timeout) THEN c.timeout.n ELSE DefaultTimeout
    ELSE UnwrapTimeout

\* error.message of the errors serialize throws and catches
NoError == [k |-> "none", family |-> "", duration |-> 0, maximum |-> 0]
\* the message with the serializer name in place of the display name
NotRecognized_SerializerName(f) ==
    [k |-> "Tipo de dato no reconocido", family |-> name(f),
     duration |-> 0, maximum |-> 0]
\* 'Tipo de dato <Family> no reconocido'
NotRecognized(f) ==
    [k |-> "Tipo de dato no reconocido", family |-> DisplayName(f),
     duration |-> 0, maximum |-> 0]
\* `Serializacion lenta: ${duration}ms (maximo ${timeout}ms)`
Slow(duration, timeout) ==
    [k |-> "Serializacion lenta", family |-> "", duration |-> duration,
     maximum |-> timeout]
\* the TypeError of a call of something that is not a function
TypeError == [k |-> "TypeError: is not a function", family |-> "",
              duration |-> 0, maximum |-> 0]

\* a comparison that lets one millisecond over the limit pass
TooSlow_OneOver(duration, timeout) == duration > timeout + 1
\* duration > timeout
TooSlow(duration, timeout) == duration > timeout

\* repo.metadata.columns?.map(...) throws when columns is not an array
ProjectorFaults(f, v, d) ==
    v = "TypeORMRepository" /\ Get(d, "metadata") = Obj(1, "columnsNotArray")

QueryVariants ==
    {"MySQLQuery", "PostgreSQLQuery", "SQLServerQuery", "OracleQuery",
     "PrismaQuery", "TypeORMQuery", "MongoDBQuery"}

\* the property of the payload from which the projector of variant v builds
\* the config of its output, "" when it builds none
ConfigField(v) ==
    CASE v = "MySQLQuery" -> "connectionConfig"
      [] v \in {"MySQLConnection", "MySQLPool", "PostgreSQLQuery",
                "SQLServerQuery", "SQLServerConnection", "SQLServerPool",
                "OracleQuery", "OracleConnection", "OraclePool"} -> "config"
      [] v = "PostgreSQLClient" -> "connectionParameters"
      [] v = "PostgreSQLPool" -> "options"
      [] OTHER -> ""

\* a projector that writes the marker in place of a password
ConfigCopy_Redacting(f, v, d, x) ==
    IF ConfigField(v) = "" \/ ~Truthy(Get(d, ConfigField(v))) THEN Undef
    ELSE IF x = "connectString" /\ f # "oracle" THEN Undef
    ELSE IF x = "password" THEN Str("[REDACTED]")
    ELSE Nested(Get(d, ConfigField(v)))[x]

\* config: c ? { ..., password: c.password, connectString: c.connectString }
\* : undefined, read at the property x of the output config
ConfigCopy(f, v, d, x) ==
    IF ConfigField(v) = "" \/ ~Truthy(Get(d, ConfigField(v))) THEN Undef
    ELSE IF x = "connectString" /\ f # "oracle" THEN Undef
    ELSE Nested(Get(d, ConfigField(v)))[x]

NoData ==
    [type |-> "", complexity |-> "", text |-> EmptyText, params |-> Undef,
     password |-> Undef, connectString |-> Undef, filter |-> Undef,
     args |-> Undef]
\* serializeQuery, serializeError, ...: the type tag, for a query the
\* complexity field, and the properties copied from the payload: the
\* statement text and its parameters, the password and the connection string
\* of the config, the filter, the args
Project(f, v, d) ==
    [ type |-> v,
      complexity |->
        IF v \in QueryVariants THEN assessQueryComplexity(f, d)
        ELSE IF v = "MongoDBAggregation" THEN assessAggregationComplexity(d)
        ELSE "",
      text |-> IF v \in QueryVariants /\ f \in SqlTextFamilies
               THEN d.txt ELSE EmptyText,
      params |-> IF v \in QueryVariants /\ f \in SqlTextFamilies
                 THEN Get(d, ParamField(f)) ELSE Undef,
      password |-> ConfigCopy(f, v, d, "password"),
      connectString |-> ConfigCopy(f, v, d, "connectString"),
      filter |-> IF v \in {"MongoDBQuery", "MongoDBError"}
                 THEN Get(d, "filter") ELSE Undef,
      args |-> IF v = "PrismaQuery" THEN Get(d, "args") ELSE Undef ]

\* new Date().toISOString()
toISOString(ms) == [format |-> "ISO-8601", ms |-> ms]

NoResult ==
    [ success |-> FALSE, hasData |-> FALSE, data |-> NoData, hasError |-> FALSE,
      error |-> NoError,
      metadata |-> [serializer |-> "", complexity |-> "", duration |-> 0,
                    timestamp |-> toISOString(0)] ]

Metadata(f, complexity, duration, t) ==
    [ serializer |-> name(f), complexity |-> complexity, duration |-> duration,
      timestamp |-> toISOString(t) ]

\* the object the try block returns
SuccessResult(f, projected, complexity, duration, t) ==
    [ success |-> TRUE, hasData |-> TRUE, data |-> projected, hasError |-> FALSE,
      error |-> NoError, metadata |-> Metadata(f, complexity, duration, t) ]

\* a catch clause that reports 'low' without calling getComplexity
FailureResult_AlwaysLow(f, err, complexity, duration, t) ==
    [ success |-> FALSE, hasData |-> FALSE, data |-> NoData, hasError |-> TRUE,
      error |-> err, metadata |-> Metadata(f, "low", duration, t) ]
\* the object the catch clause returns
FailureResult(f, err, complexity, duration, t) ==
    [ success |-> FALSE, hasData |-> FALSE, data |-> NoData, hasError |-> TRUE,
      error |-> err, metadata |-> Metadata(f, complexity, duration, t) ]

(***************************************************************************)
(* DataSanitizer.  A JavaScript value is a record: t its kind, s the       *)
(* characters of a string, n a number (for a string: the count of filler   *)
(* characters "x" that follow s), e the entries of an object or array in   *)
(* Object.entries order (array entries have the empty key).  The kind      *)
(* "cycle" is a reference to the object or array that directly holds it.   *)
(***************************************************************************)
JsUndefined == [t |-> "undefined", s |-> <<>>, n |-> 0, e |-> <<>>]
JsNull == [t |-> "null", s |-> <<>>, n |-> 0, e |-> <<>>]
JsTrue == [t |-> "boolean", s |-> <<>>, n |-> 1, e |-> <<>>]
JsNumber(x) == [t |-> "number", s |-> <<>>, n |-> x, e |-> <<>>]
JsDate == [t |-> "date", s |-> <<>>, n |-> 0, e |-> <<>>]
JsString(chars, filler) == [t |-> "string", s |-> chars, n |-> filler, e |-> <<>>]
JsCycle == [t |-> "cycle", s |-> <<>>, n |-> 0, e |-> <<>>]
Entry(key, value) == [k |-> key, v |-> value]
JsObject(entries) == [t |-> "object", s |-> <<>>, n |-> 0, e |-> entries]
JsArray(items) ==
    [t |-> "array", s |-> <<>>, n |-> 0,
     e |-> [i \in 1..Len(items) |-> Entry(<<>>, items[i])]]
\* RangeError: Maximum call stack size exceeded, thrown out of the call
RangeError == [t |-> "RangeError", s |-> <<>>, n |-> 0, e |-> <<>>]

\* typeof v === 'object' && v !== null
IsObjectValue(v) == v.t \in {"object", "array", "date", "cycle"}
\* String.prototype.length
StringLength(v) == Len(v.s) + v.n

\* the marker written over the value of a sensitive property
Redacted == JsString(<<"[","R","E","D","A","C","T","E","D","]">>, 0)

\* private defaultSensitiveFields
defaultSensitiveFields == <<
    <<"p","a","s","s","w","o","r","d">>,
    <<"t","o","k","e","n">>,
    <<"s","e","c","r","e","t">>,
    <<"k","e","y">>,
    <<"a","u","t","h">>,
    <<"c","r","e","d","e","n","t","i","a","l">>,
    <<"a","p","i","_","k","e","y">>,
    <<"p","r","i","v","a","t","e","_","k","e","y">>,
    <<"c","o","n","n","e","c","t","i","o","n","_","s","t","r","i","n","g">>,
    <<"w","a","l","l","e","t","_","l","o","c","a","t","i","o","n">>,
    <<"a","c","c","e","s","s","_","t","o","k","e","n">>,
    <<"r","e","f","r","e","s","h","_","t","o","k","e","n">>,
    <<"a","u","t","h","o","r","i","z","a","t","i","o","n">>,
    <<"b","e","a","r","e","r">> >>

\* a redact pattern: /kw\s*=\s*['"][^'"]*['"]/gi, or /\/[^\/@]*@/g
KeyValuePattern(kw) == [kind |-> "keyValue", kw |-> kw]
ConnectionPattern == [kind |-> "connection", kw |-> <<>>]
\* private defaultRedactPatterns
defaultRedactPatterns == <<
    KeyValuePattern(<<"p","a","s","s","w","o","r","d">>),
    KeyValuePattern(<<"u","s","e","r">>),
    KeyValuePattern(<<"t","o","k","e","n">>),
    KeyValuePattern(<<"s","e","c","r","e","t">>),
    ConnectionPattern >>

IsQuote(c) == c \in {"'", "\""}
\* first index at or after i that holds a quote, Len(s) + 1 if there is none
RECURSIVE SkipToQuote(_, _)
SkipToQuote(s, i) ==
    IF i <= Len(s) /\ ~IsQuote(s[i]) THEN SkipToQuote(s, i + 1) ELSE i
\* first index at or after i that holds "/" or "@", Len(s) + 1 if none
RECURSIVE SkipToSlashOrAt(_, _)
SkipToSlashOrAt(s, i) ==
    IF i <= Len(s) /\ s[i] \notin {"/", "@"} THEN SkipToSlashOrAt(s, i + 1) ELSE i

\* /kw\s*=\s*['"][^'"]*['"]/i tried at index i: the index of the last
\* character of the match, 0 when there is no match at i
KeyValueMatchEnd(s, i, kw) ==
    IF ~(i + Len(kw) - 1 <= Len(s)) THEN 0
    ELSE IF toLowerCase(SubSeq(s, i, i + Len(kw) - 1)) # kw THEN 0
    ELSE LET eq == SkipSpaces(s, i + Len(kw)) IN
         IF ~(eq <= Len(s) /\ s[eq] = "=") THEN 0
         ELSE LET open == SkipSpaces(s, eq + 1) IN
              IF ~(open <= Len(s) /\ IsQuote(s[open])) THEN 0
              ELSE LET close == SkipToQuote(s, open + 1) IN
                   IF close <= Len(s) THEN close ELSE 0

\* /\/[^\/@]*@/ tried at index i
ConnectionMatchEnd(s, i) ==
    IF ~(i <= Len(s) /\ s[i] = "/") THEN 0
    ELSE LET at == SkipToSlashOrAt(s, i + 1) IN
         IF at <= Len(s) /\ s[at] = "@" THEN at ELSE 0

MatchEnd(pattern, s, i) ==
    IF pattern.kind = "keyValue" THEN KeyValueMatchEnd(s, i, pattern.kw)
    ELSE ConnectionMatchEnd(s, i)

\* match.replace(/\/[^\/@]*@/, '/[REDACTED]@'): the first match only
RECURSIVE ReplaceFirstConnection(_, _)
ReplaceFirstConnection(s, i) ==
    IF i > Len(s) THEN s
    ELSE IF ConnectionMatchEnd(s, i) # 0
         THEN SubSeq(s, 1, i - 1) \o <<"/","[","R","E","D","A","C","T","E","D","]","@">>
              \o SubSeq(s, ConnectionMatchEnd(s, i) + 1, Len(s))
    ELSE ReplaceFirstConnection(s, i + 1)

\* the replacer callback of sanitizeString
Replacement(match) ==
    IF includes(match, <<"p","a","s","s","w","o","r","d">>)
    THEN <<"p","a","s","s","w","o","r","d","=","'","[","R","E","D","A","C","T","E","D","]","'">>
    ELSE IF includes(match, <<"u","s","e","r">>)
    THEN <<"u","s","e","r","=","'","[","R","E","D","A","C","T","E","D","]","'">>
    ELSE IF includes(match, <<"t","o","k","e","n">>)
    THEN <<"t","o","k","e","n","=","'","[","R","E","D","A","C","T","E","D","]","'">>
    ELSE IF includes(match, <<"s","e","c","r","e","t">>)
    THEN <<"s","e","c","r","e","t","=","'","[","R","E","D","A","C","T","E","D","]","'">>
    ELSE ReplaceFirstConnection(match, 1)

\* sanitized.replace(pattern, callback) for a global pattern, from index i
RECURSIVE ReplaceAll(_, _, _)
ReplaceAll(pattern, s, i) ==
    IF i > Len(s) THEN <<>>
    ELSE LET end == MatchEnd(pattern, s, i) IN
         IF end # 0
         THEN Replacement(SubSeq(s, i, end)) \o ReplaceAll(pattern, s, end + 1)
         ELSE <<s[i]>> \o ReplaceAll(pattern, s, i + 1)

\* config.redactPatterns.forEach(pattern => sanitized = sanitized.replace(...))
RECURSIVE ApplyPatterns(_, _, _)
ApplyPatterns(patterns, s, p) ==
    IF p > Len(patterns) THEN s
    ELSE ApplyPatterns(patterns, ReplaceAll(patterns[p], s, 1), p + 1)

\* maxStringLength: context.maxStringLength || 300
DefaultMaxStringLength == 300

DigitChars == <<"0","1","2","3","4","5","6","7","8","9">>
\* the decimal digits of a length, as template literal interpolation gives
RECURSIVE Digits(_)
Digits(x) ==
    IF x < 10 THEN <<DigitChars[x + 1]>>
    ELSE Digits(x \div 10) \o <<DigitChars[(x % 10) + 1]>>

\* `[STRING_LENGTH_${sanitized.length}]`
LengthPlaceholder(len) ==
    JsString(<<"[","S","T","R","I","N","G","_","L","E","N","G","T","H","_">> \o Digits(len) \o <<"]">>, 0)

\* a length check against the default limit, whatever the context says
sanitizeString_DefaultLimit(str, config) ==
    IF StringLength(str) = 0 THEN str
    ELSE LET sanitized == JsString(ApplyPatterns(config.redactPatterns.val, str.s, 1),
                                   str.n) IN
         IF StringLength(sanitized) > DefaultMaxStringLength
         THEN LengthPlaceholder(StringLength(sanitized))
         ELSE sanitized
sanitizeString(str, config) ==
    IF StringLength(str) = 0 THEN str
    ELSE LET sanitized == JsString(ApplyPatterns(config.redactPatterns.val, str.s, 1),
                                   str.n) IN
         IF StringLength(sanitized) > config.maxStringLength.val
         THEN LengthPlaceholder(StringLength(sanitized))
         ELSE sanitized

\* a property of a SanitizationContext: given, or left undefined
NoList == [given |-> FALSE, val |-> <<>>]
NoNumber == [given |-> FALSE, val |-> 0]
NoFlag == [given |-> FALSE, val |-> FALSE]
Given(x) == [given |-> TRUE, val |-> x]

\* private mergeConfig(context): ||, || , || and ??
mergeConfig(context) ==
    [ sensitiveFields |->
          IF context.sensitiveFields.given THEN context.sensitiveFields
          ELSE Given(defaultSensitiveFields),
      redactPatterns |->
          IF context.redactPatterns.given THEN context.redactPatterns
          ELSE Given(defaultRedactPatterns),
      maxStringLength |->
          IF context.maxStringLength.given /\ context.maxStringLength.val # 0
          THEN context.maxStringLength
          ELSE Given(DefaultMaxStringLength),
      enableDeepSanitization |->
          IF context.enableDeepSanitization.given
          THEN context.enableDeepSanitization
          ELSE Given(TRUE) ]

\* a key that is compared as it is written, without key.toLowerCase()
isSensitive_CaseSensitive(key, config) ==
    \E f \in 1..Len(config.sensitiveFields.val) :
        includes(key, config.sensitiveFields.val[f])
\* config.sensitiveFields.some(field => lowerKey.includes(field))
isSensitive(key, config) ==
    \E f \in 1..Len(config.sensitiveFields.val) :
        includes(toLowerCase(key), config.sensitiveFields.val[f])

\* the object a property value refers to: a cycle is the holder itself
Target(holder, value) == IF value.t = "cycle" THEN holder ELSE value

\* nested calls of sanitizeObject the call stack holds before it overflows,
\* scaled to the nesting of the values of the model
StackLimit == MaxDepth + 3

Overflows(entries) == \E i \in 1..Len(entries) : entries[i].v.t = "RangeError"

RECURSIVE sanitizeObject(_, _, _)
RECURSIVE sanitizeFrom(_, _, _)
\* the body of sanitize(data, context), entered below `depth` nested calls
sanitizeFrom(value, context, depth) ==
    LET config == mergeConfig(context) IN
    IF value.t = "string" THEN sanitizeString(value, config)
    ELSE IF IsObjectValue(value) THEN sanitizeObject(value, config, depth)
    ELSE value

\* a loop that writes the marker over every nested object instead of walking it
Property_Flattening(obj, key, value, config, depth) ==
    IF isSensitive(key, config) \/ IsObjectValue(value) THEN Redacted
    ELSE IF value.t = "string" THEN sanitizeString(value, config)
    ELSE value
\* result[key] = ... of the loop of sanitizeObject
Property(obj, key, value, config, depth) ==
    IF isSensitive(key, config) THEN Redacted
    ELSE IF IsObjectValue(value)
         THEN IF config.enableDeepSanitization.val
              THEN sanitizeObject(Target(obj, value), config, depth + 1)
              ELSE value
    ELSE IF value.t = "string" THEN sanitizeString(value, config)
    ELSE value

sanitizeObject(obj, config, depth) ==
    IF depth >= StackLimit THEN RangeError
    ELSE IF obj.t = "array"
    THEN LET items == [i \in 1..Len(obj.e) |->
                          Entry(<<>>, sanitizeFrom(Target(obj, obj.e[i].v),
                                                   config, depth + 1))] IN
         IF Overflows(items) THEN RangeError
         ELSE [t |-> "array", s |-> <<>>, n |-> 0, e |-> items]
    ELSE LET copied == [i \in 1..Len(obj.e) |->
                           Entry(obj.e[i].k,
                                 Property(obj, obj.e[i].k, obj.e[i].v,
                                          config, depth))] IN
         IF Overflows(copied) THEN RangeError ELSE JsObject(copied)

sanitize(value, context) == sanitizeFrom(value, context, 0)

\* the strings a sanitized value holds
SanitizeStrings == {
    JsString(<<>>, 0),
    JsString(<<"a","b","c">>, 0),
    JsString(<<"h","e","l","l","o"," ","w","o","r","l","d">>, 0),
    JsString(<<"a","b","c">>, 298),
    JsString(<<"p","a","s","s","w","o","r","d","=","'","x","'">>, 0),
    JsString(<<"P","A","S","S","W","O","R","D","=","'","x","'">>, 0),
    JsString(<<"u","s","e","r"," ","="," ","\"","b","o","b","\"">>, 0),
    JsString(<<"d","b",":","/","/","u",":","p","@","h">>, 0) }
SanitizeLeaves ==
    SanitizeStrings \cup {JsNumber(7), JsNull, JsTrue, JsDate}
\* the empty object and array, and the ones that hold themselves
SanitizeContainers == {
    JsObject(<<>>),
    JsArray(<<>>),
    JsObject(<<Entry(<<"s","e","l","f">>, JsCycle)>>),
    JsObject(<<Entry(<<"a","p","i","K","e","y">>, JsCycle)>>),
    JsArray(<<JsCycle>>) }
\* one more level of nesting around v
Wrap(v) == {
    JsObject(<<Entry(<<"n","a","m","e">>, v)>>),
    JsObject(<<Entry(<<"a","p","i","K","e","y">>, v)>>),
    JsObject(<<Entry(<<"s","s","n">>, v)>>),
    JsObject(<<Entry(<<"i","d">>, JsNumber(7)), Entry(<<"m","e","t","a">>, v)>>),
    JsArray(<<v, JsString(<<"a","b","c">>, 0)>>) }
RECURSIVE Nest(_)
Nest(d) ==
    IF d = 0 THEN SanitizeLeaves \cup SanitizeContainers
    ELSE LET inner == Nest(d - 1) IN inner \cup UNION {Wrap(v) : v \in inner}
SanitizeInputs == Nest(MaxDepth)

EmptyContext ==
    [ sensitiveFields |-> NoList, redactPatterns |-> NoList,
      maxStringLength |-> NoNumber, enableDeepSanitization |-> NoFlag ]
SanitizeContexts == {
    EmptyContext,
    [EmptyContext EXCEPT !.maxStringLength = Given(0)],
    [EmptyContext EXCEPT !.maxStringLength = Given(10)],
    [EmptyContext EXCEPT !.maxStringLength = Given(20)],
    [EmptyContext EXCEPT !.maxStringLength = Given(400)],
    [EmptyContext EXCEPT !.enableDeepSanitization = Given(FALSE)],
    [EmptyContext EXCEPT !.enableDeepSanitization = Given(TRUE),
                         !.sensitiveFields = Given(<<<<"s","s","n">>>>)],
    [EmptyContext EXCEPT !.sensitiveFields = Given(<<>>)],
    [EmptyContext EXCEPT !.redactPatterns = Given(<<>>)],
    [EmptyContext EXCEPT !.enableDeepSanitization = Given(FALSE),
                         !.sensitiveFields = Given(<<<<"s","s","n">>>>),
                         !.maxStringLength = Given(10)] }

(***************************************************************************)
(* Concurrent callers of serialize.                                        *)
(***************************************************************************)
\* priority = 85 and the like: the second field of a serializer instance
priority(f) ==
    CASE f = "mysql" -> 85 [] f = "postgresql" -> 90 [] f = "sqlserver" -> 95
      [] f = "oracle" -> 100 [] f = "prisma" -> 75 [] f = "typeorm" -> 80
      [] f = "mongodb" -> 70
\* the serializer instances of registerAllSerializers, one per family
Instances == [f \in Families |-> [name |-> name(f), priority |-> priority(f)]]

Callers == 1..MaxCallers
\* the locals of a call of serialize: its arguments, const startTime, what
\* Date.now() gave in the try block and in the catch clause, the error caught
\* and the object returned
IdleCall ==
    [ pc |-> "idle", fam |-> "none", data |-> Primitive("undefined"),
      ctx |-> [timeout |-> Undef], startTime |-> 0, tryNow |-> 0, catchNow |-> 0,
      thrown |-> NoError, result |-> NoResult ]
\* what Date.now() returns while the calls are in flight
ConcurrentTimes == {1000, 1030, 1060}
\* the calls made concurrently: a query, null, an aggregation, and an object
\* no recognizer accepts
ConcurrentCalls == {
    [ fam |-> "mysql", ctx |-> [timeout |-> Undef],
      data |-> MakeObject({P("sql", Str("sql"))},
                          [toks |-> <<"SELECT">>, pad |-> 0]) ],
    [ fam |-> "mysql", ctx |-> [timeout |-> Num(5)],
      data |-> Primitive("null") ],
    [ fam |-> "mongodb", ctx |-> [timeout |-> Undef],
      data |-> MakeObject({P("collection", Str("users")), P("pipeline", Arr(9))},
                          EmptyText) ],
    [ fam |-> "mysql", ctx |-> [timeout |-> Num(100)],
      data |-> MakeObject({P("sql", Str("sql")), P("values", Str("x"))},
                          [toks |-> <<"SELECT">>, pad |-> 0]) ] }

\* a startTime kept in a field of the serializer instance: the calls on one
\* instance overwrite it, and each reads what the latest of them wrote
StartOf_Shared(calls, c) ==
    LET starts == {calls[x].startTime :
                      x \in {y \in Callers : /\ calls[y].pc # "idle"
                                              /\ calls[y].fam = calls[c].fam}}
    IN  CHOOSE t \in starts : \A u \in starts : u <= t
\* const startTime of call c
StartOf(calls, c) == calls[c].startTime

\* serialize(d, c) run alone: started when the clock shows t0, reading t1 in
\* the try block and t2 in the catch clause
SerializeAlone(f, d, c, t0, t1, t2) ==
    LET v == FirstMatch(f, SerializeOrder(f), 1, d)
        complexity == getComplexity(f, d)
        caught ==
            IF v = "fault" THEN TypeError
            ELSE IF v = "none" THEN NotRecognized(f)
            ELSE IF ProjectorFaults(f, v, d) THEN TypeError
            ELSE IF TooSlow(t1 - t0, Timeout(f, c)) THEN Slow(t1 - t0, Timeout(f, c))
            ELSE IF complexity = "fault" THEN TypeError
            ELSE NoError
    IN  IF caught = NoError
        THEN [ pc |-> "returned", thrown |-> NoError,
               result |-> SuccessResult(f, Project(f, v, d), complexity,
                                        t1 - t0, t1) ]
        ELSE IF complexity = "fault"
        THEN [pc |-> "rejected", thrown |-> TypeError, result |-> NoResult]
        ELSE [ pc |-> "returned", thrown |-> caught,
               result |-> FailureResult(f, caught, complexity, t2 - t0, t2) ]

(***************************************************************************)
(* RabbitMQAdapter (src/brokers/RabbitMQAdapter.ts).  The methods are      *)
(* async: a call runs from one await to the next without interruption,     *)
(* and other calls run while it waits.  The amqplib objects are modelled   *)
(* by the broker state: a channel lives on the connection of the same      *)
(* number, a request on a closed channel or connection is rejected, and    *)
(* closing a channel or a connection ends the consumers on it.             *)
(***************************************************************************)
Topics == {"orders", "audit"}
Slots == 1..MaxInFlight

NotAvailable == "not available"
ChannelClosed == "channel closed"
NullChannel == "TypeError"

RIdleCall == [ op |-> "none", at |-> "idle", topic |-> "", chan |-> 0,
               tag |-> 0, seen |-> {}, err |-> "", rpcs |-> 0 ]

NoTags == [t \in Topics |-> 0]

\* a call that begins: its locals
RBegin(op, topic) == [RIdleCall EXCEPT !.op = op, !.topic = topic]
\* the call waits for one more request to the broker
RAwait(call, at, chan) ==
    [call EXCEPT !.at = at, !.chan = chan, !.rpcs = @ + 1]
RResolve(call) == [call EXCEPT !.at = "resolved"]
RReject(call, err) == [call EXCEPT !.at = "rejected", !.err = err]

\* the broker after channel.cancel(tag)
CancelConsumer(b, ch, tag) ==
    [b EXCEPT !.consumers = @ \ {[tag |-> tag, chan |-> ch]}]
\* the broker after channel.close()
CloseChannel(b, ch) ==
    [b EXCEPT !.chans = @ \ {ch},
              !.consumers = {k \in @ : k.chan # ch}]
\* the broker after connection.close()
CloseConnection(b, c) ==
    [ conns |-> b.conns \ {c}, chans |-> b.chans \ {c},
      consumers |-> {k \in b.consumers : k.chan # c} ]

RabbitIdle ==
    /\ rConnection = 0 /\ rChannel = 0 /\ rTags = NoTags
    /\ rBroker = [conns |-> {}, chans |-> {}, consumers |-> {}]
    /\ rCalls = [s \in Slots |-> RIdleCall]
    /\ rNext = [conn |-> 1, tag |-> 1]
    /\ rClean = FALSE
    /\ rLink = "down"

(***************************************************************************)
(* CloudWatchAdapter (src/aws/CloudWatchAdapter.ts).  A sequence token is  *)
(* a number, 0 standing for undefined.  The log stream accepts an event    *)
(* sent with the token it expects and answers any other token with an      *)
(* InvalidSequenceTokenException; any request can fail for another reason. *)
(***************************************************************************)
NoToken == 0
InvalidSequenceTokenException == "InvalidSequenceTokenException"
ThrottlingException == "ThrottlingException"

\* a settled client.send: name is "" when it resolved; told is the token
\* the error message carries after "sequenceToken is: ", NoToken when the
\* message has no such part
Accepted(next) == [name |-> "", next |-> next, told |-> NoToken]
Failed(errName, told) == [name |-> errName, next |-> NoToken, told |-> told]
NoReply == Failed("none", NoToken)

\* what PutLogEvents with sequenceToken `token` can answer
PutLogEvents(token, expected) ==
    (IF token = expected
     THEN {Accepted(expected + 1)}
     ELSE {Failed(InvalidSequenceTokenException, told) :
              told \in {expected, NoToken}})
    \cup {Failed(ThrottlingException, NoToken)}

\* error.message.match(/sequenceToken is: (.+)/)?.[1]
MatchedToken(error) == error.told

NoLog == [sent |-> <<>>, accepted |-> FALSE, next |-> NoToken, error |-> "",
          stored |-> NoToken]

CloudIdle ==
    /\ wPc = "idle" /\ wToken = NoToken /\ wExpected = NoToken
    /\ wReply = NoReply /\ wCall = NoLog

(***************************************************************************)
(* MQTTAdapter (src/aws/MQTTAdapter.ts).  Option values are JavaScript     *)
(* values; a text is its sequence of characters.                           *)
(***************************************************************************)
Bool(b) == [t |-> "boolean", n |-> IF b THEN 1 ELSE 0, s |-> ""]
Text(chars) == [t |-> "string", n |-> 0, s |-> chars]
NoText == [t |-> "undefined", n |-> 0, s |-> <<>>]

\* ToBoolean(v)
IsTruthy(v) ==
    CASE v.t = "undefined" -> FALSE
      [] v.t = "boolean" -> v.n = 1
      [] v.t = "number" -> v.n # 0
      [] v.t = "string" -> v.s # <<>> /\ v.s # ""
      [] OTHER -> TRUE
\* a || b
OrElse(a, b) == IF IsTruthy(a) THEN a ELSE b
\* a ?? b
Coalesce(a, b) == IF a.t = "undefined" THEN b ELSE a

DefaultPrefix == <<"s","y","n","t","r","o","p","y","l","o","g">>

\* new MQTTAdapter(config): the fields after the constructor
MqttFields(config) ==
    [ topicPrefix |-> OrElse(config.topicPrefix, Text(DefaultPrefix)).s,
      defaultQos |-> OrElse(config.qos, Num(1)),
      defaultRetain |-> OrElse(config.retain, Bool(FALSE)) ]

\* buildTopic(topic)
buildTopic(adapter, topic) ==
    IF Len(topic) > 0 /\ topic[1] = "/"
    THEN adapter.topicPrefix \o topic
    ELSE adapter.topicPrefix \o <<"/">> \o topic

\* the input of the PublishCommand publish(message) builds
PublishInput(adapter, message) ==
    [ topic |-> buildTopic(adapter, message.topic),
      qos |-> Coalesce(message.qos, adapter.defaultQos),
      retain |-> Coalesce(message.retain, adapter.defaultRetain) ]

QosOptions == {Undef} \cup {Num(q) : q \in 0..2}
RetainOptions == {Undef, Bool(TRUE), Bool(FALSE)}
MqttConfigs ==
    [ topicPrefix : {NoText, Text(<<>>), Text(<<"i","o","t">>)},
      qos : QosOptions, retain : RetainOptions ]
MqttMessages ==
    [ topic : {<<"l","o","g","s">>, <<"/","a">>},
      qos : QosOptions, retain : RetainOptions ]

NoConfig == [topicPrefix |-> NoText, qos |-> Undef, retain |-> Undef]
NoMessage == [topic |-> <<>>, qos |-> Undef, retain |-> Undef]
NoCommand == [topic |-> <<>>, qos |-> Undef, retain |-> Undef]

MqttIdle ==
    /\ mPc = "none" /\ mConfig = NoConfig /\ mAdapter = MqttFields(NoConfig)
    /\ mMessage = NoMessage /\ mCommand = NoCommand

(***************************************************************************)
(* NatsAdapter (src/brokers/NatsAdapter.ts).  Only connect and disconnect  *)
(* wait for the server; drain() closes the connection it is called on.     *)
(***************************************************************************)
NatsIdle ==
    /\ nConnection = 0 /\ nSubs = NoTags
    /\ nServer = [conns |-> {}, subs |-> {}]
    /\ nCalls = [s \in Slots |-> RIdleCall]
    /\ nNext = [conn |-> 1, sub |-> 1]
    /\ nLink = "down"

(***************************************************************************)
(* S3Adapter (src/aws/S3Adapter.ts).  A key is its sequence of characters; *)
(* the bucket holds at most one object per Key.                            *)
(***************************************************************************)
\* the keys the callers use, and the bodies they store
UserKeys == {<<"a">>, <<"b">>, <<"p","/","a">>}
Bodies == {"x", "y"}
\* config.prefix: undefined, '' or 'p'
S3Prefixes == {NoText, Text(<<>>), Text(<<"p">>)}
\* the prefix argument of list: undefined or 'a'
ListPrefixes == {NoText, Text(<<"a">>)}

\* this.prefix ? `${this.prefix}/${key}` : key
FullKey(prefix, key) ==
    IF prefix # <<>> THEN prefix \o <<"/">> \o key ELSE key

\* this.prefix ? `${this.prefix}/${prefix || ''}` : (prefix || '')
FullPrefix(prefix, arg) ==
    IF prefix # <<>>
    THEN prefix \o <<"/">> \o OrElse(arg, Text(<<>>)).s
    ELSE OrElse(arg, Text(<<>>)).s

\* key starts with pre
StartsWith(key, pre) ==
    Len(pre) <= Len(key) /\ SubSeq(key, 1, Len(pre)) = pre

\* ListObjectsV2 with Prefix pre: the Keys of Contents
ListObjectsV2(bucket, pre) == {o.Key : o \in {x \in bucket : StartsWith(x.Key, pre)}}
\* PutObject
PutObject(bucket, key, body) ==
    {o \in bucket : o.Key # key} \cup {[Key |-> key, Body |-> body]}
\* DeleteObject
DeleteObject(bucket, key) == {o \in bucket : o.Key # key}
\* the Body of the object at Key, "" when there is none (NoSuchKey, NotFound)
BodyAt(bucket, key) ==
    IF \E o \in bucket : o.Key = key
    THEN (CHOOSE o \in bucket : o.Key = key).Body ELSE ""

NoCall == [op |-> "none", key |-> <<>>, listed |-> FALSE, Key |-> <<>>,
           found |-> FALSE, body |-> ""]
NowhereYet == [k \in UserKeys |-> <<>>]

S3Idle ==
    /\ s3Pc = "none" /\ s3Prefix = <<>> /\ s3Bucket = {}
    /\ s3Where = NowhereYet /\ s3Listed = {} /\ s3Last = NoCall

Idle ==
    /\ pc = "idle" /\ fam = "none" /\ data = Primitive("undefined")
    /\ ctx = [timeout |-> Undef] /\ now = 0 /\ startTime = 0
    /\ measured = -1 /\ thrown = NoError /\ result = NoResult

ScoreIdle ==
    /\ sPc = "idle" /\ sFam = "none" /\ sQuery = Primitive("undefined")
    /\ sParts = [op |-> 0, cte |-> 0, window |-> 0, join |-> 0, subquery |-> 0,
                 dialect |-> 0, length |-> 0, params |-> 0]
    /\ sBucket = ""

SanitizeIdle ==
    /\ zPc = "idle" /\ zData = JsUndefined /\ zContext = EmptyContext
    /\ zOut = JsUndefined /\ zAgain = JsUndefined

ConcurrentIdle ==
    /\ cCalls = [c \in Callers |-> IdleCall]
    /\ cNow = 1000
    /\ cInstances = Instances

Init ==
    /\ Idle /\ ScoreIdle /\ SanitizeIdle /\ ConcurrentIdle
    /\ RabbitIdle /\ CloudIdle /\ MqttIdle /\ NatsIdle /\ S3Idle

\* serialize(data, context) is called: const startTime = Date.now()
Call ==
    /\ pc = "idle"
    /\ \E f \in Families : \E d \in Payloads[f] : \E c \in Contexts :
       \E t \in StartTimes :
          /\ fam' = f /\ data' = d /\ ctx' = c
          /\ now' = t /\ startTime' = t
    /\ pc' = "try"
    /\ UNCHANGED <<measured, thrown, result>>
    /\ UNCHANGED <<scoreVars, sanitizeVars, concurrentVars, adapterVars>>

\* the try block, to its return or to the throw that leaves it
TryBlock ==
    /\ pc = "try"
    /\ LET v == FirstMatch(fam, SerializeOrder(fam), 1, data)
       IN  IF v = "fault"
           THEN /\ thrown' = TypeError /\ pc' = "catch"
                /\ UNCHANGED <<now, measured, result>>
           ELSE IF v = "none"
           THEN /\ thrown' = NotRecognized(fam) /\ pc' = "catch"
                /\ UNCHANGED <<now, measured, result>>
           ELSE IF ProjectorFaults(fam, v, data)
           THEN /\ thrown' = TypeError /\ pc' = "catch"
                /\ UNCHANGED <<now, measured, result>>
           ELSE \E dt \in TryDelays :
                LET duration == (now + dt) - startTime
                    timeout == Timeout(fam, ctx)
                    complexity == getComplexity(fam, data)
                IN  /\ now' = now + dt
                    /\ measured' = duration
                    /\ IF TooSlow(duration, timeout)
                       THEN /\ thrown' = Slow(duration, timeout)
                            /\ pc' = "catch" /\ UNCHANGED result
                       ELSE IF complexity = "fault"
                       THEN /\ thrown' = TypeError
                            /\ pc' = "catch" /\ UNCHANGED result
                       ELSE /\ result' = SuccessResult(fam, Project(fam, v, data),
                                             complexity, duration, now')
                            /\ pc' = "returned" /\ UNCHANGED thrown
    /\ UNCHANGED <<fam, data, ctx, startTime>>
    /\ UNCHANGED <<scoreVars, sanitizeVars, concurrentVars, adapterVars>>

\* the catch clause: it returns the failure result, unless getComplexity
\* throws in it, which rejects the promise of serialize
CatchBlock ==
    /\ pc = "catch"
    /\ \E dt \in CatchDelays :
       LET duration == (now + dt) - startTime
           complexity == getComplexity(fam, data)
       IN  /\ now' = now + dt
           /\ IF complexity = "fault"
              THEN /\ pc' = "rejected" /\ thrown' = TypeError
                   /\ UNCHANGED result
              ELSE /\ result' = FailureResult(fam, thrown, complexity, duration,
                                              now')
                   /\ pc' = "returned" /\ UNCHANGED thrown
    /\ UNCHANGED <<fam, data, ctx, startTime, measured>>
    /\ UNCHANGED <<scoreVars, sanitizeVars, concurrentVars, adapterVars>>

\* the caller has the outcome of the call; the serializer keeps nothing of it
Settle ==
    /\ pc \in {"returned", "rejected"}
    /\ pc' = "idle" /\ fam' = "none" /\ data' = Primitive("undefined")
    /\ ctx' = [timeout |-> Undef] /\ now' = 0 /\ startTime' = 0
    /\ measured' = -1 /\ thrown' = NoError /\ result' = NoResult
    /\ UNCHANGED <<scoreVars, sanitizeVars, concurrentVars, adapterVars>>

Next == Call \/ TryBlock \/ CatchBlock \/ Settle

Spec == Init /\ [][Next]_vars

(***************************************************************************)
(* The classifier alone: assessQueryComplexity of the SQL text families,   *)
(* run on the queries below.                                               *)
(***************************************************************************)
\* text.length of the queries: the length of the words, or one of these
LengthTargets == {200, 201, 500, 501, 1000, 1001}
Pads(toks) == {0} \cup {len - Len(JoinWords(toks)) : len \in LengthTargets}

\* the parameter property: absent, or an array of this many parameters
ParamValues == {Undef} \cup {Arr(k) : k \in {0, 5, 6, 10, 11, 20, 21}}

\* the properties of a TypeORMQuery the classifier reads besides the text
QueryTypes ==
    {Undef, Str("SELECT"), Str("INSERT"), Str("UPDATE"), Str("DELETE"), Str("RAW")}
JoinValues == {Undef, Arr(0), Arr(1), Arr(3)}

Present(props) == {e \in props : e.val # Undef}

ScoreQueries(f) ==
    IF f = "typeorm"
    THEN { MakeObject(Present({P("sql", Str("sql")), P("parameters", params),
                               P("queryType", queryType), P("joins", joins)}),
                      [toks |-> <<v>>, pad |-> pad]) :
             v \in {"SELECT", "delete"}, pad \in Pads(<<"SELECT">>),
             params \in ParamValues, queryType \in QueryTypes,
             joins \in JoinValues }
    ELSE { MakeObject(Present({P(TextField(f), Str("sql")),
                               P(ParamField(f), q[3])}),
                      [toks |-> q[1], pad |-> q[2]]) :
             q \in UNION { {<<toks, pad, params>> :
                                pad \in Pads(toks), params \in ParamValues} :
                             toks \in Statements } }

\* assessQueryComplexity(query), for a query its family recognizes
Assess ==
    /\ sPc = "idle"
    /\ \E f \in SqlTextFamilies : \E q \in ScoreQueries(f) :
          /\ Recognize(f, SerializeOrder(f)[1], q) = "true"
          /\ sFam' = f /\ sQuery' = q
          /\ sParts' = QueryParts(f, q)
          /\ sBucket' = assessQueryComplexity(f, q)
    /\ sPc' = "done"
    /\ UNCHANGED <<callVars, sanitizeVars, concurrentVars, adapterVars>>

Forget ==
    /\ sPc = "done"
    /\ sPc' = "idle" /\ sFam' = "none" /\ sQuery' = Primitive("undefined")
    /\ sParts' = [op |-> 0, cte |-> 0, window |-> 0, join |-> 0, subquery |-> 0,
                  dialect |-> 0, length |-> 0, params |-> 0]
    /\ sBucket' = ""
    /\ UNCHANGED <<callVars, sanitizeVars, concurrentVars, adapterVars>>

NextScore == Assess \/ Forget

SpecScore == Init /\ [][NextScore]_vars

(***************************************************************************)
(* The sanitizer: one call of sanitize, and a second pass over its result. *)
(***************************************************************************)
\* sanitize(data, context) is called
SanitizeCall ==
    /\ zPc = "idle"
    /\ \E d \in SanitizeInputs, c \in SanitizeContexts :
           /\ zData' = d
           /\ zContext' = c
    /\ zPc' = "called"
    /\ UNCHANGED <<zOut, zAgain>>
    /\ UNCHANGED <<callVars, scoreVars, concurrentVars, adapterVars>>

\* the call returns or throws; nothing in its body assigns to data
SanitizeReturn ==
    /\ zPc = "called"
    /\ zOut' = sanitize(zData, zContext)
    /\ zPc' = IF zOut'.t = "RangeError" THEN "threw" ELSE "returned"
    /\ UNCHANGED <<zData, zContext, zAgain>>
    /\ UNCHANGED <<callVars, scoreVars, concurrentVars, adapterVars>>

\* sanitize(result, context) on the returned value
SanitizeAgain ==
    /\ zPc = "returned"
    /\ zAgain' = sanitize(zOut, zContext)
    /\ zPc' = "again"
    /\ UNCHANGED <<zData, zContext, zOut>>
    /\ UNCHANGED <<callVars, scoreVars, concurrentVars, adapterVars>>

Release ==
    /\ zPc \in {"returned", "threw", "again"}
    /\ zPc' = "idle" /\ zData' = JsUndefined /\ zContext' = EmptyContext
    /\ zOut' = JsUndefined /\ zAgain' = JsUndefined
    /\ UNCHANGED <<callVars, scoreVars, concurrentVars, adapterVars>>

NextSanitize == SanitizeCall \/ SanitizeReturn \/ SanitizeAgain \/ Release

SpecSanitize == Init /\ [][NextSanitize]_vars

(***************************************************************************)
(* Concurrent calls: each caller runs the steps of serialize on its own    *)
(* locals; the clock is the only thing the calls have in common.           *)
(***************************************************************************)
\* caller c calls serialize: const startTime = Date.now()
ConcurrentCall(c) ==
    /\ cCalls[c].pc = "idle"
    /\ \E call \in ConcurrentCalls :
           cCalls' = [cCalls EXCEPT ![c] =
                         [IdleCall EXCEPT !.pc = "try", !.fam = call.fam,
                                          !.data = call.data, !.ctx = call.ctx,
                                          !.startTime = cNow]]
    /\ UNCHANGED <<cNow, cInstances>>
    /\ UNCHANGED <<callVars, scoreVars, sanitizeVars, adapterVars>>

\* the try block of the call of c
ConcurrentTry(c) ==
    /\ cCalls[c].pc = "try"
    /\ LET my == cCalls[c]
           v == FirstMatch(my.fam, SerializeOrder(my.fam), 1, my.data)
           duration == cNow - StartOf(cCalls, c)
           timeout == Timeout(my.fam, my.ctx)
           complexity == getComplexity(my.fam, my.data)
       IN  cCalls' = [cCalls EXCEPT ![c] =
               IF v = "fault"
               THEN [my EXCEPT !.pc = "catch", !.thrown = TypeError]
               ELSE IF v = "none"
               THEN [my EXCEPT !.pc = "catch", !.thrown = NotRecognized(my.fam)]
               ELSE IF ProjectorFaults(my.fam, v, my.data)
               THEN [my EXCEPT !.pc = "catch", !.thrown = TypeError]
               ELSE IF TooSlow(duration, timeout)
               THEN [my EXCEPT !.pc = "catch", !.tryNow = cNow,
                               !.thrown = Slow(duration, timeout)]
               ELSE IF complexity = "fault"
               THEN [my EXCEPT !.pc = "catch", !.tryNow = cNow,
                               !.thrown = TypeError]
               ELSE [my EXCEPT !.pc = "returned", !.tryNow = cNow,
                               !.result = SuccessResult(my.fam,
                                              Project(my.fam, v, my.data),
                                              complexity, duration, cNow)]]
    /\ UNCHANGED <<cNow, cInstances>>
    /\ UNCHANGED <<callVars, scoreVars, sanitizeVars, adapterVars>>

\* the catch clause of the call of c
ConcurrentCatch(c) ==
    /\ cCalls[c].pc = "catch"
    /\ LET my == cCalls[c]
           duration == cNow - StartOf(cCalls, c)
           complexity == getComplexity(my.fam, my.data)
       IN  cCalls' = [cCalls EXCEPT ![c] =
               IF complexity = "fault"
               THEN [my EXCEPT !.pc = "rejected", !.catchNow = cNow,
                               !.thrown = TypeError]
               ELSE [my EXCEPT !.pc = "returned", !.catchNow = cNow,
                               !.result = FailureResult(my.fam, my.thrown,
                                              complexity, duration, cNow)]]
    /\ UNCHANGED <<cNow, cInstances>>
    /\ UNCHANGED <<callVars, scoreVars, sanitizeVars, adapterVars>>

\* caller c has the outcome of its call
ConcurrentSettle(c) ==
    /\ cCalls[c].pc \in {"returned", "rejected"}
    /\ cCalls' = [cCalls EXCEPT ![c] = IdleCall]
    /\ UNCHANGED <<cNow, cInstances>>
    /\ UNCHANGED <<callVars, scoreVars, sanitizeVars, adapterVars>>

\* time passes
Tick ==
    /\ \E t \in ConcurrentTimes : t > cNow /\ cNow' = t
    /\ UNCHANGED <<cCalls, cInstances>>
    /\ UNCHANGED <<callVars, scoreVars, sanitizeVars, adapterVars>>

NextConcurrent ==
    \/ \E c \in Callers : ConcurrentCall(c)
    \/ \E c \in Callers : ConcurrentTry(c)
    \/ \E c \in Callers : ConcurrentCatch(c)
    \/ \E c \in Callers : ConcurrentSettle(c)
    \/ Tick

SpecConcurrent == Init /\ [][NextConcurrent]_vars

(***************************************************************************)
(* RabbitMQAdapter: one action per stretch of a method between two awaits. *)
(***************************************************************************)
RFrame == UNCHANGED <<serializerVars, cloudVars, mqttVars, natsVars, s3Vars>>

\* a disconnect call is between two awaits
Disconnecting(calls) ==
    \E x \in Slots : calls[x].op = "disconnect"
                     /\ calls[x].at \notin {"resolved", "rejected"}

\* the fields, the broker and slot s after a step
RSet(s, conn, chan, tags, broker, call, clean) ==
    /\ rConnection' = conn /\ rChannel' = chan /\ rTags' = tags
    /\ rBroker' = broker /\ rCalls' = [rCalls EXCEPT ![s] = call]
    /\ rClean' = clean

\* connect(), to the await of amqplib.connect
RabbitConnectCall(s) ==
    /\ rCalls[s].at = "idle"
    /\ rNext.conn <= MaxConnects
    /\ RSet(s, rConnection, rChannel, rTags, rBroker,
            RAwait(RBegin("connect", ""), "connect", 0), FALSE)
    /\ UNCHANGED <<rNext, rLink>> /\ RFrame

\* this.connection = (the new connection); createChannel() is awaited
RabbitConnectOpened(s) ==
    /\ rCalls[s].op = "connect" /\ rCalls[s].at = "connect"
    /\ LET c == rNext.conn IN
       /\ RSet(s, c, rChannel, rTags,
               [rBroker EXCEPT !.conns = @ \cup {c}],
               RAwait(rCalls[s], "createChannel", c), rClean)
       /\ rNext' = [rNext EXCEPT !.conn = c + 1]
    /\ UNCHANGED rLink /\ RFrame

\* this.channel = (the new channel); assertExchange is awaited
RabbitConnectChannel(s) ==
    /\ rCalls[s].op = "connect" /\ rCalls[s].at = "createChannel"
    /\ LET c == rCalls[s].chan IN
       IF c \in rBroker.conns
       THEN RSet(s, rConnection, c, rTags,
                 [rBroker EXCEPT !.chans = @ \cup {c}],
                 RAwait(rCalls[s], "assertExchange", c), rClean)
       ELSE RSet(s, rConnection, rChannel, rTags, rBroker,
                 RReject(rCalls[s], ChannelClosed), rClean)
    /\ UNCHANGED <<rNext, rLink>> /\ RFrame

\* assertExchange settles and connect with it
RabbitConnectDone(s) ==
    /\ rCalls[s].op = "connect" /\ rCalls[s].at = "assertExchange"
    /\ RSet(s, rConnection, rChannel, rTags, rBroker,
            IF rCalls[s].chan \in rBroker.chans
            THEN RResolve(rCalls[s])
            ELSE RReject(rCalls[s], ChannelClosed), rClean)
    /\ rLink' = IF rCalls'[s].at = "resolved" /\ ~Disconnecting(rCalls)
                THEN "up" ELSE rLink
    /\ UNCHANGED rNext /\ RFrame

\* disconnect: the finally block, then the promise resolves
RFinally(s, tags, broker, call) ==
    RSet(s, 0, 0, tags, broker, RResolve(call), TRUE)

\* disconnect from `if (this.connection)`
RCloseConnection(s, tags, broker, call) ==
    IF rConnection # 0 /\ rConnection \in broker.conns
    THEN RSet(s, rConnection, rChannel, tags, broker,
              RAwait(call, "closeConnection", rConnection), rClean)
    ELSE RFinally(s, tags, broker, call)

\* disconnect from `if (this.channel)`: close() of a closed channel throws
RCloseChannel(s, tags, broker, call) ==
    IF rChannel # 0
    THEN IF rChannel \in broker.chans
         THEN RSet(s, rConnection, rChannel, tags, broker,
                   RAwait(call, "closeChannel", rChannel), rClean)
         ELSE RFinally(s, tags, broker, call)
    ELSE RCloseConnection(s, tags, broker, call)

\* disconnect at the head of the for loop over this.consumerTags
RCancelLoop(s, broker, call) ==
    LET todo == {t \in Topics : rTags[t] # 0 /\ t \notin call.seen} IN
    IF todo # {} /\ rChannel # 0
    THEN LET t == CHOOSE x \in todo : TRUE IN
         RSet(s, rConnection, rChannel, rTags, broker,
              [RAwait(call, "cancel", rChannel) EXCEPT
                  !.topic = t, !.tag = rTags[t]], rClean)
    ELSE RCloseChannel(s, NoTags, broker, call)

\* disconnect(), to its first await
RabbitDisconnectCall(s) ==
    /\ rCalls[s].at = "idle"
    /\ IF rChannel # 0 /\ rTags # NoTags
       THEN RCancelLoop(s, rBroker, RBegin("disconnect", ""))
       ELSE RCloseChannel(s, rTags, rBroker, RBegin("disconnect", ""))
    /\ rLink' = IF Disconnecting(rCalls') THEN "closing" ELSE "down"
    /\ UNCHANGED rNext /\ RFrame

\* disconnect: channel.cancel(tag) settled, a rejection is only logged
RabbitDisconnectCancelled(s) ==
    /\ rCalls[s].op = "disconnect" /\ rCalls[s].at = "cancel"
    /\ LET call == rCalls[s] IN
       RCancelLoop(s,
           IF call.chan \in rBroker.chans
           THEN CancelConsumer(rBroker, call.chan, call.tag) ELSE rBroker,
           [call EXCEPT !.seen = @ \cup {call.topic}])
    /\ rLink' = IF Disconnecting(rCalls') THEN "closing" ELSE "down"
    /\ UNCHANGED rNext /\ RFrame

\* disconnect: channel.close() settled
RabbitDisconnectChannelClosed(s) ==
    /\ rCalls[s].op = "disconnect" /\ rCalls[s].at = "closeChannel"
    /\ LET call == rCalls[s] IN
       IF call.chan \in rBroker.chans
       THEN RCloseConnection(s, rTags, CloseChannel(rBroker, call.chan), call)
       ELSE RFinally(s, rTags, rBroker, call)
    /\ rLink' = IF Disconnecting(rCalls') THEN "closing" ELSE "down"
    /\ UNCHANGED rNext /\ RFrame

\* disconnect: connection.close() settled
RabbitDisconnectConnectionClosed(s) ==
    /\ rCalls[s].op = "disconnect" /\ rCalls[s].at = "closeConnection"
    /\ RFinally(s, rTags, CloseConnection(rBroker, rCalls[s].chan), rCalls[s])
    /\ rLink' = IF Disconnecting(rCalls') THEN "closing" ELSE "down"
    /\ UNCHANGED rNext /\ RFrame

\* publish(topic, message)
RabbitPublish(s) ==
    /\ rCalls[s].at = "idle"
    /\ \E t \in Topics :
         RSet(s, rConnection, rChannel, rTags, rBroker,
              IF rChannel = 0
              THEN RReject(RBegin("publish", t), NotAvailable)
              ELSE RResolve(RAwait(RBegin("publish", t), "publish", rChannel)),
              FALSE)
    /\ UNCHANGED <<rNext, rLink>> /\ RFrame

\* subscribe(topic, handler), to the await of assertQueue
RabbitSubscribeCall(s) ==
    /\ rCalls[s].at = "idle"
    /\ rNext.tag + Cardinality({x \in Slots : rCalls[x].at \in
            {"assertQueue", "bindQueue", "consume"}}) <= MaxConsumers
    /\ \E t \in Topics :
         RSet(s, rConnection, rChannel, rTags, rBroker,
              IF rChannel = 0
              THEN RReject(RBegin("subscribe", t), NotAvailable)
              ELSE RAwait(RBegin("subscribe", t), "assertQueue", rChannel),
              FALSE)
    /\ UNCHANGED <<rNext, rLink>> /\ RFrame

\* subscribe: a request settled, the next one goes to this.channel
RSubscribeNext(s, at) ==
    RSet(s, rConnection, rChannel, rTags, rBroker,
         IF rCalls[s].chan \notin rBroker.chans
         THEN RReject(rCalls[s], ChannelClosed)
         ELSE IF rChannel = 0
              THEN RReject(rCalls[s], NullChannel)
              ELSE RAwait(rCalls[s], at, rChannel),
         rClean)

\* subscribe: assertQueue settled, bindQueue is awaited
RabbitSubscribeQueue(s) ==
    /\ rCalls[s].op = "subscribe" /\ rCalls[s].at = "assertQueue"
    /\ RSubscribeNext(s, "bindQueue")
    /\ UNCHANGED <<rNext, rLink>> /\ RFrame

\* subscribe: bindQueue settled, consume is awaited
RabbitSubscribeBound(s) ==
    /\ rCalls[s].op = "subscribe" /\ rCalls[s].at = "bindQueue"
    /\ RSubscribeNext(s, "consume")
    /\ UNCHANGED <<rNext, rLink>> /\ RFrame

\* subscribe: consume settled, this.consumerTags.set(topic, consumerTag)
RabbitSubscribeConsuming(s) ==
    /\ rCalls[s].op = "subscribe" /\ rCalls[s].at = "consume"
    /\ LET call == rCalls[s]
           tag == rNext.tag IN
       IF call.chan \in rBroker.chans
       THEN /\ RSet(s, rConnection, rChannel,
                    [rTags EXCEPT ![call.topic] = tag],
                    [rBroker EXCEPT !.consumers =
                        @ \cup {[tag |-> tag, chan |-> call.chan]}],
                    RResolve([call EXCEPT !.tag = tag]), rClean)
            /\ rNext' = [rNext EXCEPT !.tag = tag + 1]
       ELSE /\ RSet(s, rConnection, rChannel, rTags, rBroker,
                    RReject(call, ChannelClosed), rClean)
            /\ UNCHANGED rNext
    /\ UNCHANGED rLink /\ RFrame

\* unsubscribe(topic), to the await of channel.cancel
RabbitUnsubscribeCall(s) ==
    /\ rCalls[s].at = "idle"
    /\ \E t \in Topics :
         RSet(s, rConnection, rChannel, rTags, rBroker,
              IF rChannel = 0
              THEN RReject(RBegin("unsubscribe", t), NotAvailable)
              ELSE IF rTags[t] # 0
                   THEN [RAwait(RBegin("unsubscribe", t), "cancel", rChannel)
                            EXCEPT !.tag = rTags[t]]
                   ELSE RResolve(RBegin("unsubscribe", t)),
              FALSE)
    /\ UNCHANGED <<rNext, rLink>> /\ RFrame

\* unsubscribe: cancel settled, this.consumerTags.delete(topic)
RabbitUnsubscribeCancelled(s) ==
    /\ rCalls[s].op = "unsubscribe" /\ rCalls[s].at = "cancel"
    /\ LET call == rCalls[s] IN
       IF call.chan \in rBroker.chans
       THEN RSet(s, rConnection, rChannel,
                 [rTags EXCEPT ![call.topic] = 0],
                 CancelConsumer(rBroker, call.chan, call.tag),
                 RResolve(call), rClean)
       ELSE RSet(s, rConnection, rChannel, rTags, rBroker,
                 RReject(call, ChannelClosed), rClean)
    /\ UNCHANGED <<rNext, rLink>> /\ RFrame

\* the caller has seen the outcome of its call
RabbitSettle(s) ==
    /\ rCalls[s].at \in {"resolved", "rejected"}
    /\ rCalls' = [rCalls EXCEPT ![s] = RIdleCall]
    /\ UNCHANGED <<rConnection, rChannel, rTags, rBroker, rNext, rClean, rLink>>
    /\ RFrame

NextRabbit ==
    \E s \in Slots :
        \/ RabbitConnectCall(s) \/ RabbitConnectOpened(s)
        \/ RabbitConnectChannel(s) \/ RabbitConnectDone(s)
        \/ RabbitDisconnectCall(s) \/ RabbitDisconnectCancelled(s)
        \/ RabbitDisconnectChannelClosed(s)
        \/ RabbitDisconnectConnectionClosed(s)
        \/ RabbitPublish(s)
        \/ RabbitSubscribeCall(s) \/ RabbitSubscribeQueue(s)
        \/ RabbitSubscribeBound(s) \/ RabbitSubscribeConsuming(s)
        \/ RabbitUnsubscribeCall(s) \/ RabbitUnsubscribeCancelled(s)
        \/ RabbitSettle(s)

SpecRabbit == Init /\ [][NextRabbit]_vars

(***************************************************************************)
(* NatsAdapter: one action per stretch of a method between two awaits.     *)
(***************************************************************************)
NFrame == UNCHANGED <<serializerVars, rabbitVars, cloudVars, mqttVars, s3Vars>>

NatsSet(s, conn, subs, server, call) ==
    /\ nConnection' = conn /\ nSubs' = subs /\ nServer' = server
    /\ nCalls' = [nCalls EXCEPT ![s] = call]

\* connect(), to the await of connect({servers})
NatsConnectCall(s) ==
    /\ nCalls[s].at = "idle"
    /\ nNext.conn <= MaxConnects
    /\ NatsSet(s, nConnection, nSubs, nServer,
               RAwait(RBegin("connect", ""), "connect", 0))
    /\ UNCHANGED <<nNext, nLink>> /\ NFrame

\* this.natsConnection = (the new connection), and connect resolves
NatsConnectDone(s) ==
    /\ nCalls[s].op = "connect" /\ nCalls[s].at = "connect"
    /\ LET c == nNext.conn IN
       /\ NatsSet(s, c, nSubs, [nServer EXCEPT !.conns = @ \cup {c}],
                  RResolve(nCalls[s]))
       /\ nNext' = [nNext EXCEPT !.conn = c + 1]
    /\ nLink' = IF Disconnecting(nCalls) THEN nLink ELSE "up"
    /\ NFrame

\* disconnect(), to the await of drain(): every subscription of the table
\* is unsubscribed and the table cleared
NatsDisconnectCall(s) ==
    /\ nCalls[s].at = "idle"
    /\ IF nConnection # 0
       THEN NatsSet(s, nConnection, NoTags,
                    [nServer EXCEPT !.subs = @ \ {nSubs[t] : t \in Topics}],
                    RAwait(RBegin("disconnect", ""), "drain", nConnection))
       ELSE NatsSet(s, nConnection, nSubs, nServer,
                    RResolve(RBegin("disconnect", "")))
    /\ nLink' = IF Disconnecting(nCalls') THEN "closing" ELSE "down"
    /\ UNCHANGED nNext /\ NFrame

\* drain() settled: this.natsConnection.close(); this.natsConnection = null
NatsDisconnectDrained(s) ==
    /\ nCalls[s].op = "disconnect" /\ nCalls[s].at = "drain"
    /\ LET drained == [nServer EXCEPT !.conns = @ \ {nCalls[s].chan}] IN
       IF nConnection = 0
       THEN NatsSet(s, nConnection, nSubs, drained,
                    RReject(nCalls[s], NullChannel))
       ELSE NatsSet(s, 0, nSubs,
                    [drained EXCEPT !.conns = @ \ {nConnection}],
                    RResolve(nCalls[s]))
    /\ nLink' = IF Disconnecting(nCalls') THEN "closing" ELSE "down"
    /\ UNCHANGED nNext /\ NFrame

\* publish(topic, message)
NatsPublish(s) ==
    /\ nCalls[s].at = "idle"
    /\ \E t \in Topics :
         NatsSet(s, nConnection, nSubs, nServer,
                 IF nConnection = 0
                 THEN RReject(RBegin("publish", t), NotAvailable)
                 ELSE IF nConnection \in nServer.conns
                      THEN RResolve(RAwait(RBegin("publish", t), "publish",
                                           nConnection))
                      ELSE RReject(RAwait(RBegin("publish", t), "publish",
                                          nConnection), ChannelClosed))
    /\ UNCHANGED <<nNext, nLink>> /\ NFrame

\* subscribe(topic, handler)
NatsSubscribe(s) ==
    /\ nCalls[s].at = "idle"
    /\ nNext.sub <= MaxConsumers
    /\ \E t \in Topics :
         IF nConnection = 0
         THEN /\ NatsSet(s, nConnection, nSubs, nServer,
                         RReject(RBegin("subscribe", t), NotAvailable))
              /\ UNCHANGED nNext
         ELSE IF nConnection \in nServer.conns
              THEN /\ NatsSet(s, nConnection,
                              [nSubs EXCEPT ![t] = nNext.sub],
                              [nServer EXCEPT !.subs = @ \cup {nNext.sub}],
                              RResolve(RAwait(RBegin("subscribe", t),
                                              "subscribe", nConnection)))
                   /\ nNext' = [nNext EXCEPT !.sub = @ + 1]
              ELSE /\ NatsSet(s, nConnection, nSubs, nServer,
                              RReject(RAwait(RBegin("subscribe", t),
                                             "subscribe", nConnection),
                                      ChannelClosed))
                   /\ UNCHANGED nNext
    /\ UNCHANGED nLink /\ NFrame

\* unsubscribe(topic)
NatsUnsubscribe(s) ==
    /\ nCalls[s].at = "idle"
    /\ \E t \in Topics :
         IF nConnection = 0
         THEN NatsSet(s, nConnection, nSubs, nServer,
                      RReject(RBegin("unsubscribe", t), NotAvailable))
         ELSE IF nSubs[t] # 0
              THEN NatsSet(s, nConnection, [nSubs EXCEPT ![t] = 0],
                           [nServer EXCEPT !.subs = @ \ {nSubs[t]}],
                           RResolve(RAwait(RBegin("unsubscribe", t),
                                           "unsubscribe", nConnection)))
              ELSE NatsSet(s, nConnection, nSubs, nServer,
                           RResolve(RBegin("unsubscribe", t)))
    /\ UNCHANGED <<nNext, nLink>> /\ NFrame

\* the caller has seen the outcome of its call
NatsSettle(s) ==
    /\ nCalls[s].at \in {"resolved", "rejected"}
    /\ nCalls' = [nCalls EXCEPT ![s] = RIdleCall]
    /\ UNCHANGED <<nConnection, nSubs, nServer, nNext, nLink>>
    /\ NFrame

NextNats ==
    \E s \in Slots :
        \/ NatsConnectCall(s) \/ NatsConnectDone(s)
        \/ NatsDisconnectCall(s) \/ NatsDisconnectDrained(s)
        \/ NatsPublish(s) \/ NatsSubscribe(s) \/ NatsUnsubscribe(s)
        \/ NatsSettle(s)

SpecNats == Init /\ [][NextNats]_vars

(***************************************************************************)
(* CloudWatchAdapter.log.                                                  *)
(***************************************************************************)
WFrame == UNCHANGED <<serializerVars, rabbitVars, mqttVars, natsVars, s3Vars>>

\* the log stream answers a PutLogEvents request
CloudSend(token, call) ==
    \E reply \in PutLogEvents(token, wExpected) :
        /\ wReply' = reply
        /\ wExpected' = IF reply.name = "" THEN reply.next ELSE wExpected
        /\ wCall' = [call EXCEPT !.sent = Append(@, token)]

\* log(level, message, context), to the await of client.send(command)
CloudLog ==
    /\ wPc = "idle"
    /\ wExpected < MaxSequence
    /\ CloudSend(wToken, [NoLog EXCEPT !.stored = wToken])
    /\ wPc' = "send"
    /\ UNCHANGED wToken /\ WFrame

\* the first send settled: l.87, or the catch clause to its await or end
CloudLogReply ==
    /\ wPc = "send"
    /\ IF wReply.name = ""
       THEN /\ wToken' = wReply.next
            /\ wCall' = [wCall EXCEPT !.accepted = TRUE, !.next = wReply.next]
            /\ wPc' = "resolved"
            /\ UNCHANGED <<wReply, wExpected>>
       ELSE IF wReply.name = InvalidSequenceTokenException
            THEN /\ wToken' = MatchedToken(wReply)
                 /\ IF MatchedToken(wReply) # NoToken
                    THEN /\ CloudSend(MatchedToken(wReply), wCall)
                         /\ wPc' = "retry"
                    ELSE /\ wPc' = "resolved"
                         /\ UNCHANGED <<wReply, wExpected, wCall>>
            ELSE /\ wPc' = "rejected"
                 /\ wCall' = [wCall EXCEPT !.error = wReply.name]
                 /\ UNCHANGED <<wToken, wReply, wExpected>>
    /\ WFrame

\* the retry settled: l.101, or its error leaves the catch clause
CloudLogRetryReply ==
    /\ wPc = "retry"
    /\ IF wReply.name = ""
       THEN /\ wToken' = wReply.next
            /\ wCall' = [wCall EXCEPT !.accepted = TRUE, !.next = wReply.next]
            /\ wPc' = "resolved"
       ELSE /\ wPc' = "rejected"
            /\ wCall' = [wCall EXCEPT !.error = wReply.name]
            /\ UNCHANGED wToken
    /\ UNCHANGED <<wReply, wExpected>> /\ WFrame

\* the caller has seen the outcome of log
CloudSettle ==
    /\ wPc \in {"resolved", "rejected"}
    /\ wPc' = "idle" /\ wReply' = NoReply /\ wCall' = NoLog
    /\ UNCHANGED <<wToken, wExpected>> /\ WFrame

\* another writer puts an event on the same log stream
CloudOtherWriter ==
    /\ wExpected < MaxSequence
    /\ wExpected' = wExpected + 1
    /\ UNCHANGED <<wPc, wToken, wReply, wCall>> /\ WFrame

NextCloud ==
    \/ CloudLog \/ CloudLogReply \/ CloudLogRetryReply
    \/ CloudSettle \/ CloudOtherWriter

SpecCloud == Init /\ [][NextCloud]_vars

(***************************************************************************)
(* MQTTAdapter: construction and publish.                                  *)
(***************************************************************************)
MFrame == UNCHANGED <<serializerVars, rabbitVars, cloudVars, natsVars, s3Vars>>

\* new MQTTAdapter(config)
MqttConstruct ==
    /\ mPc = "none"
    /\ \E config \in MqttConfigs :
         /\ mConfig' = config
         /\ mAdapter' = MqttFields(config)
    /\ mPc' = "ready"
    /\ UNCHANGED <<mMessage, mCommand>> /\ MFrame

\* publish(message), to the await of client.send(command)
MqttPublish ==
    /\ mPc = "ready"
    /\ \E message \in MqttMessages :
         /\ mMessage' = message
         /\ mCommand' = PublishInput(mAdapter, message)
    /\ mPc' = "send"
    /\ UNCHANGED <<mConfig, mAdapter>> /\ MFrame

\* client.send settled: publish resolves, or rejects with `Failed to publish`
MqttSent ==
    /\ mPc = "send"
    /\ mPc' \in {"resolved", "rejected"}
    /\ UNCHANGED <<mConfig, mAdapter, mMessage, mCommand>> /\ MFrame

\* the caller has seen the outcome of publish
MqttSettle ==
    /\ mPc \in {"resolved", "rejected"}
    /\ mPc' = "ready" /\ mMessage' = NoMessage /\ mCommand' = NoCommand
    /\ UNCHANGED <<mConfig, mAdapter>> /\ MFrame

\* the adapter is dropped
MqttDrop ==
    /\ mPc = "ready"
    /\ mPc' = "none" /\ mConfig' = NoConfig /\ mAdapter' = MqttFields(NoConfig)
    /\ UNCHANGED <<mMessage, mCommand>> /\ MFrame

NextMqtt ==
    \/ MqttConstruct \/ MqttPublish \/ MqttSent \/ MqttSettle \/ MqttDrop

SpecMqtt == Init /\ [][NextMqtt]_vars

(***************************************************************************)
(* S3Adapter: construction and the IStorage methods, each with the         *)
(* request it sends and the answer of the bucket.                          *)
(***************************************************************************)
SFrame == UNCHANGED <<serializerVars, rabbitVars, cloudVars, mqttVars, natsVars>>

\* new S3Adapter(config) on an empty bucket
S3Construct ==
    /\ s3Pc = "none"
    /\ \E prefix \in S3Prefixes : s3Prefix' = OrElse(prefix, Text(<<>>)).s
    /\ s3Pc' = "ready"
    /\ UNCHANGED <<s3Bucket, s3Where, s3Listed, s3Last>> /\ SFrame

\* the key argument of a call: a key of the caller, or, taken unchanged,
\* one of the keys the last list returned
S3KeyArguments ==
    {[key |-> k, listed |-> FALSE] : k \in UserKeys}
    \cup {[key |-> k, listed |-> TRUE] : k \in s3Listed}

\* store(key, data)
S3Store ==
    /\ s3Pc = "ready"
    /\ \E k \in UserKeys : \E body \in Bodies :
         LET fullKey == FullKey(s3Prefix, k) IN
         /\ s3Bucket' = PutObject(s3Bucket, fullKey, body)
         /\ s3Where' = [s3Where EXCEPT ![k] = fullKey]
         /\ s3Last' = [op |-> "store", key |-> k, listed |-> FALSE,
                       Key |-> fullKey, found |-> TRUE, body |-> body]
    /\ UNCHANGED <<s3Pc, s3Prefix, s3Listed>> /\ SFrame

\* retrieve(key): the StorageObject, or null on NoSuchKey
S3Retrieve ==
    /\ s3Pc = "ready"
    /\ \E a \in S3KeyArguments :
         LET fullKey == FullKey(s3Prefix, a.key) IN
         s3Last' = [op |-> "retrieve", key |-> a.key, listed |-> a.listed,
                    Key |-> fullKey,
                    found |-> BodyAt(s3Bucket, fullKey) # "",
                    body |-> BodyAt(s3Bucket, fullKey)]
    /\ UNCHANGED <<s3Pc, s3Prefix, s3Bucket, s3Where, s3Listed>> /\ SFrame

\* exists(key): HeadObject answered, or NotFound
S3Exists ==
    /\ s3Pc = "ready"
    /\ \E a \in S3KeyArguments :
         LET fullKey == FullKey(s3Prefix, a.key) IN
         s3Last' = [op |-> "exists", key |-> a.key, listed |-> a.listed,
                    Key |-> fullKey,
                    found |-> BodyAt(s3Bucket, fullKey) # "", body |-> ""]
    /\ UNCHANGED <<s3Pc, s3Prefix, s3Bucket, s3Where, s3Listed>> /\ SFrame

\* getMetadata(key): the metadata of HeadObject, or null on NotFound
S3GetMetadata ==
    /\ s3Pc = "ready"
    /\ \E a \in S3KeyArguments :
         LET fullKey == FullKey(s3Prefix, a.key) IN
         s3Last' = [op |-> "getMetadata", key |-> a.key, listed |-> a.listed,
                    Key |-> fullKey,
                    found |-> BodyAt(s3Bucket, fullKey) # "", body |-> ""]
    /\ UNCHANGED <<s3Pc, s3Prefix, s3Bucket, s3Where, s3Listed>> /\ SFrame

\* delete(key)
S3Delete ==
    /\ s3Pc = "ready"
    /\ \E a \in S3KeyArguments :
         LET fullKey == FullKey(s3Prefix, a.key) IN
         /\ s3Bucket' = DeleteObject(s3Bucket, fullKey)
         /\ s3Last' = [op |-> "delete", key |-> a.key, listed |-> a.listed,
                       Key |-> fullKey,
                       found |-> BodyAt(s3Bucket, fullKey) # "", body |-> ""]
    /\ UNCHANGED <<s3Pc, s3Prefix, s3Where, s3Listed>> /\ SFrame

\* list(prefix): the Keys of the response
S3List ==
    /\ s3Pc = "ready"
    /\ \E arg \in ListPrefixes :
         /\ s3Listed' = ListObjectsV2(s3Bucket, FullPrefix(s3Prefix, arg))
         /\ s3Last' = [NoCall EXCEPT !.op = "list",
                                     !.Key = FullPrefix(s3Prefix, arg)]
    /\ UNCHANGED <<s3Pc, s3Prefix, s3Bucket, s3Where>> /\ SFrame

\* the adapter and its bucket are dropped
S3Drop ==
    /\ s3Pc = "ready"
    /\ s3Pc' = "none" /\ s3Prefix' = <<>> /\ s3Bucket' = {}
    /\ s3Where' = NowhereYet /\ s3Listed' = {} /\ s3Last' = NoCall
    /\ SFrame

NextS3 ==
    \/ S3Construct \/ S3Store \/ S3Retrieve \/ S3Exists \/ S3GetMetadata
    \/ S3Delete \/ S3List \/ S3Drop

SpecS3 == Init /\ [][NextS3]_vars

(***************************************************************************)
(* Properties.                                                             *)
(***************************************************************************)
Variants(f) == {SerializeOrder(f)[i] : i \in 1..Len(SerializeOrder(f))}
\* the variants whose recognizer accepts d
Accepting(f, d) == {v \in Variants(f) : Recognize(f, v, d) = "true"}
\* every recognizer of f returns a falsy value on d
Unrecognized(f, d) ==
    \A v \in Variants(f) : Recognize(f, v, d) \notin {"true", "fault"}

\* C1: serialize never throws or rejects: every call resolves to a
\* SerializationResult, whatever the payload.
C1_NeverRejects == pc # "rejected"

\* C2: a payload that no variant predicate of the family accepts is answered
\* with success:false, the message 'Tipo de dato <Family> no reconocido'
\* with the family's display name, no data, and complexity 'low'.
C2_UnrecognizedFails ==
    (pc = "returned" /\ Unrecognized(fam, data)) =>
        /\ result.success = FALSE
        /\ result.hasError
        /\ result.error.k = "Tipo de dato no reconocido"
        /\ result.error.family
             \in {"Prisma", "TypeORM", "MySQL", "PostgreSQL", "SQL Server",
                  "Oracle", "MongoDB"}
        /\ result.error.family = DisplayName(fam)
        /\ ~result.hasData
        /\ result.metadata.complexity = "low"

\* the payload { random: 'data' } was answered
C2_Witness ==
    /\ pc = "returned" /\ Unrecognized(fam, data)
    /\ data.kind = "object" /\ Get(data, "random") = Unread(1)
    /\ \A x \in Fields \ {"random", "constructor.name"} : IsUndefined(data, x)

\* C3: every result, success or failure, carries metadata: serializer is the
\* family name, complexity is getComplexity(payload), one of low, medium and
\* high, duration is a number and timestamp an ISO string.
C3_MetadataAlways ==
    pc = "returned" =>
        /\ result.metadata.serializer = fam
        /\ result.metadata.complexity = getComplexity(fam, data)
        /\ result.metadata.complexity \in {"low", "medium", "high"}
        /\ result.metadata.duration \in Int
        /\ result.metadata.timestamp.format = "ISO-8601"

\* a failure result whose complexity was computed, not defaulted
C3_Witness ==
    /\ pc = "returned" /\ ~result.success
    /\ result.metadata.complexity \in {"medium", "high"}

\* C4: a success has 0 <= duration <= the effective timeout; a try block
\* that measured more than the effective timeout ends in a returned failure
\* that reports the elapsed time and the maximum, with duration >= timeout.
C4_TimeoutEnforced ==
    /\ (pc = "returned" /\ result.success) =>
          /\ result.metadata.duration >= 0
          /\ result.metadata.duration <= Timeout(fam, ctx)
    /\ (pc \in {"returned", "rejected"} /\ measured > Timeout(fam, ctx)) =>
          /\ pc = "returned"
          /\ ~result.success
          /\ result.error.k = "Serializacion lenta"
          /\ result.error.duration = measured
          /\ result.error.maximum = Timeout(fam, ctx)
          /\ result.metadata.duration >= Timeout(fam, ctx)

\* a call that overran its timeout has returned
C4_Witness ==
    /\ pc = "returned" /\ measured > Timeout(fam, ctx)
    /\ result.error.k = "Serializacion lenta"

\* C5: every serializer takes its limit from the context: a recognized
\* payload whose measured time is at most context.timeout (50 when the
\* context gives none) succeeds.
C5_ContextTimeoutRespected ==
    (pc = "returned" /\ measured >= 0) =>
        LET limit == IF Truthy(ctx.timeout) THEN ctx.timeout.n ELSE 50
        IN  measured <= limit => result.success

\* the order of the claim: Query, ErrorRecord, LiveHandle, PoolHandle; 0 for
\* the variants that are none of the four
KindRank(v) ==
    CASE v \in {"MySQLQuery", "PostgreSQLQuery", "SQLServerQuery", "OracleQuery",
                "PrismaQuery", "TypeORMQuery", "MongoDBQuery"} -> 1
      [] v \in {"MySQLError", "PostgreSQLError", "SQLServerError", "OracleError",
                "PrismaError", "TypeORMError", "MongoDBError"} -> 2
      [] v \in {"MySQLConnection", "PostgreSQLClient", "SQLServerConnection",
                "OracleConnection", "PrismaClient", "TypeORMConnection"} -> 3
      [] v \in {"MySQLPool", "PostgreSQLPool", "SQLServerPool", "OraclePool"} -> 4
      [] OTHER -> 0

\* the accepting variant that comes first in the order of the claim
Earliest(f, d) ==
    CHOOSE v \in Accepting(f, d) :
        \A w \in Accepting(f, d) : KindRank(v) <= KindRank(w)

\* C6: serialize and getComplexity test the predicates in the order Query,
\* ErrorRecord, LiveHandle, PoolHandle and stop at the first that accepts: a
\* payload several of them accept is projected, and classified, as the
\* earliest of these.
C6_FirstMatchOrder ==
    (/\ pc = "returned" /\ measured >= 0
     /\ \A v \in Accepting(fam, data) : KindRank(v) > 0) =>
        /\ result.success => result.data.type = Earliest(fam, data)
        /\ result.metadata.complexity
             = VariantComplexity(fam, Earliest(fam, data), data)

\* a payload that two predicates accept was projected
C6_Witness ==
    /\ pc = "returned" /\ result.success
    /\ Cardinality(Accepting(fam, data)) >= 2
    /\ \A v \in Accepting(fam, data) : KindRank(v) > 0

\* C7: no payload satisfies two variant predicates of one family.
C7_AtMostOneVariant ==
    pc = "try" => Cardinality(Accepting(fam, data)) <= 1

\* C8: getComplexity is 'low' for every error payload and every live
\* handle, and 'medium' for every payload the pool predicate accepts.
C8_HandleComplexity ==
    pc = "try" =>
        \A v \in Accepting(fam, data) :
            /\ KindRank(v) \in {2, 3} => getComplexity(fam, data) = "low"
            /\ KindRank(v) = 4 => getComplexity(fam, data) = "medium"

\* the length of the statement text and the number of its parameters
TextLength == Length(sQuery.txt)
ParamCount ==
    LET params == Get(sQuery, ParamField(sFam))
    IN  IF Truthy(params) THEN params.n ELSE 0

\* the bonuses and the bucket of the claim
ThreeTierLength ==
    sParts.length = (IF TextLength > 1000 THEN 3 ELSE IF TextLength > 500 THEN 2
                     ELSE IF TextLength > 200 THEN 1 ELSE 0)
TwoTierParams ==
    sParts.params = (IF ParamCount > 20 THEN 2 ELSE IF ParamCount > 10 THEN 1
                     ELSE 0)
EightFourBucket ==
    /\ sBucket = "high" <=> Total(sParts) >= 8
    /\ sBucket = "medium" <=> Total(sParts) \in 4..7
    /\ sBucket = "low" <=> Total(sParts) < 4

\* C9 as stated: in every SQL text family, TypeORM included, the length
\* bonus is +3 above 1000 characters, +2 above 500, +1 above 200, the
\* parameter bonus +2 above 20 and +1 above 10, and the bucket is high from
\* 8, medium from 4 to 7, low below.
C9_AsStated ==
    (sPc = "done" /\ sFam \in SqlTextFamilies) =>
        ThreeTierLength /\ TwoTierParams /\ EightFourBucket

\* C9: in MySQL, PostgreSQL, SQL Server and Oracle the length bonus is +3
\* above 1000 characters, +2 above 500, +1 above 200, the parameter bonus +2
\* above 20 and +1 above 10, the bucket high from 8 and medium from 4 to 7;
\* in TypeORM the length bonus is +2 above 500 and +1 above 200, the
\* parameter bonus +2 above 10 and +1 above 5, the bucket high from 6 and
\* medium from 3 to 5.
C9_TiersPerFamily ==
    /\ (sPc = "done" /\ sFam \in {"mysql", "postgresql", "sqlserver", "oracle"})
         => ThreeTierLength /\ TwoTierParams /\ EightFourBucket
    /\ (sPc = "done" /\ sFam = "typeorm") =>
         /\ sParts.length = (IF TextLength > 500 THEN 2
                             ELSE IF TextLength > 200 THEN 1 ELSE 0)
         /\ sParts.params = (IF ParamCount > 10 THEN 2
                             ELSE IF ParamCount > 5 THEN 1 ELSE 0)
         /\ sBucket = "high" <=> Total(sParts) >= 6
         /\ sBucket = "medium" <=> Total(sParts) \in 3..5
         /\ sBucket = "low" <=> Total(sParts) < 3

\* a TypeORM statement of 1001 characters with 6 parameters was scored
\* medium on these two bonuses alone
C9_Witness ==
    /\ sPc = "done" /\ sFam = "typeorm"
    /\ TextLength = 1001 /\ ParamCount = 6
    /\ sParts.length = 2 /\ sParts.params = 1
    /\ Total(sParts) = 3 /\ sBucket = "medium"

\* the weight the claim gives the kind of a statement that starts with verb
KindWeight(verb) ==
    CASE toLowerCase(Word[verb]) = Kw.select -> 1
      [] toLowerCase(Word[verb]) = Kw.insert -> 2
      [] toLowerCase(Word[verb]) \in {Kw.update, Kw.delete} -> 3
      [] toLowerCase(Word[verb]) \in {Kw.create, Kw.alter, Kw.drop} -> 4
      [] OTHER -> 0

\* C10: the score of every statement of an SQL text family includes the
\* weight of its operation kind: 1 for a select, 2 for an insert, 3 for an
\* update or a delete, 4 for create, alter and drop, joins and keywords of
\* other kinds in the text notwithstanding.
C10_OperationWeight ==
    (/\ sPc = "done" /\ sFam \in KeywordFamilies
     /\ KindWeight(sQuery.txt.toks[1]) > 0) =>
        sParts.op = KindWeight(sQuery.txt.toks[1])

\* the query with one more join and everything else equal: one more element
\* of joins for TypeORM, one more JOIN in the text for the others
WithJoin(f, q) ==
    IF f = "typeorm"
    THEN LET joins == Get(q, "joins")
         IN  [q EXCEPT !.fld["joins"] =
                 IF joins.t = "array" THEN Arr(joins.n + 1) ELSE Arr(1)]
    ELSE [q EXCEPT !.txt.toks = Joined(@)]

BucketRank(b) == CASE b = "low" -> 1 [] b = "medium" -> 2 [] b = "high" -> 3

\* C11: adding one more join to a recognized query, everything else equal,
\* never lowers its complexity bucket (low < medium < high), a select with
\* no join that gets its first join included.
C11_JoinMonotonic ==
    sPc = "done" =>
        BucketRank(assessQueryComplexity(sFam, WithJoin(sFam, sQuery)))
            >= BucketRank(sBucket)

\* a medium select with a subquery and no join, which loses the weight of
\* the select when it gets its first join, and stays medium
C11_Witness ==
    /\ sPc = "done" /\ sFam \in KeywordFamilies
    /\ sQuery.txt = [toks |-> <<"SELECT", "subq">>, pad |-> 0]
    /\ sParts.op = 1 /\ sParts.join = 0 /\ sBucket = "medium"
    /\ QueryParts(sFam, WithJoin(sFam, sQuery)).op = 0
    /\ QueryParts(sFam, WithJoin(sFam, sQuery)).join = 2
    /\ assessQueryComplexity(sFam, WithJoin(sFam, sQuery)) = "medium"

\* pipeline.length plus stages.length of a payload
StageCount(d) ==
    (IF IsArray(d, "pipeline") THEN Get(d, "pipeline").n ELSE 0)
    + (IF IsArray(d, "stages") THEN Get(d, "stages").n ELSE 0)

\* C12: every MongoDB payload that carries a pipeline array, whatever its
\* other fields, is bucketed by its summed stage count: high from 8, medium
\* from 4, low below; a pipeline of 9 stages is high.
C12_AggregationByStages ==
    (pc = "returned" /\ fam = "mongodb" /\ IsArray(data, "pipeline")) =>
        result.metadata.complexity =
            (IF StageCount(data) >= 8 THEN "high"
             ELSE IF StageCount(data) >= 4 THEN "medium" ELSE "low")

\* the config object of the payload a serialized variant was built from
SourceConfig ==
    IF ConfigField(result.data.type) = "" THEN Undef
    ELSE Get(data, ConfigField(result.data.type))

\* every copied property of result.data has the value it has in the payload
Copied ==
    (pc = "returned" /\ result.success) =>
        /\ (result.data.type \in {"MySQLQuery", "PostgreSQLQuery",
                                  "SQLServerQuery", "OracleQuery",
                                  "TypeORMQuery"}) =>
              /\ result.data.text = data.txt
              /\ result.data.params = Get(data, ParamField(fam))
        /\ (result.data.type \in {"MongoDBQuery", "MongoDBError"}) =>
              result.data.filter = Get(data, "filter")
        /\ (result.data.type = "PrismaQuery") =>
              result.data.args = Get(data, "args")
        /\ Truthy(SourceConfig) =>
              /\ result.data.password = Nested(SourceConfig).password
              /\ result.data.password # Str("[REDACTED]")
              /\ fam = "oracle" =>
                    result.data.connectString
                        = Nested(SourceConfig).connectString

C14_SensitiveRedacted ==
    (pc = "returned" /\ result.success) =>
        /\ result.data.password \in {Undef, Str("[REDACTED]")}
        /\ Nested(result.data.filter).password \in {Undef, Str("[REDACTED]")}


\* a has the keys of b at every object level and its length at every array
\* level (a Date has no own enumerable keys)
RECURSIVE SameShape(_, _)
SameShape(a, b) ==
    IF a.t \in {"object", "date"}
    THEN /\ b.t \in {"object", "date"}
         /\ Len(b.e) = Len(a.e)
         /\ \A i \in 1..Len(a.e) :
                /\ b.e[i].k = a.e[i].k
                /\ SameShape(a.e[i].v, b.e[i].v)
    ELSE IF a.t = "array"
    THEN /\ b.t = "array"
         /\ Len(b.e) = Len(a.e)
         /\ \A i \in 1..Len(a.e) : SameShape(a.e[i].v, b.e[i].v)
    ELSE b.t \notin {"object", "array"}

\* the same, except that a property with a sensitive key may hold the marker
RECURSIVE SameShapeOrRedacted(_, _, _)
SameShapeOrRedacted(a, b, config) ==
    IF a.t \in {"object", "date"}
    THEN /\ b.t \in {"object", "date"}
         /\ Len(b.e) = Len(a.e)
         /\ \A i \in 1..Len(a.e) :
                /\ b.e[i].k = a.e[i].k
                /\ \/ /\ isSensitive(a.e[i].k, config)
                      /\ b.e[i].v = JsString(<<"[","R","E","D","A","C","T","E","D","]">>, 0)
                   \/ SameShapeOrRedacted(a.e[i].v, b.e[i].v, config)
    ELSE IF a.t = "array"
    THEN /\ b.t = "array"
         /\ Len(b.e) = Len(a.e)
         /\ \A i \in 1..Len(a.e) :
                SameShapeOrRedacted(a.e[i].v, b.e[i].v, config)
    ELSE b.t \notin {"object", "array"}

Returned == zPc \in {"returned", "again"}

C16_Idempotent == zPc = "again" => zAgain = zOut

\* some key of v, at any depth, is sensitive under config
RECURSIVE HasSensitiveKey(_, _)
HasSensitiveKey(v, config) ==
    \E i \in 1..Len(v.e) :
        \/ v.t # "array" /\ isSensitive(v.e[i].k, config)
        \/ HasSensitiveKey(v.e[i].v, config)
\* a redact pattern of config matches somewhere in the characters s
MatchesPattern(s, config) ==
    \E p \in 1..Len(config.redactPatterns.val), i \in 1..Len(s) :
        MatchEnd(config.redactPatterns.val[p], s, i) # 0
\* some string of v, at any depth, is matched by a redact pattern
RECURSIVE HasMatchingString(_, _)
HasMatchingString(v, config) ==
    \/ v.t = "string" /\ MatchesPattern(v.s, config)
    \/ \E i \in 1..Len(v.e) : HasMatchingString(v.e[i].v, config)
\* some string of v is longer than the effective maxStringLength
RECURSIVE HasLongString(_, _)
HasLongString(v, config) ==
    \/ v.t = "string" /\ StringLength(v) > config.maxStringLength.val
    \/ \E i \in 1..Len(v.e) : HasLongString(v.e[i].v, config)
\* v is built from null, booleans, numbers, strings, arrays and plain
\* objects only, and holds no reference to one of its own containers
RECURSIVE IsPlainData(_)
IsPlainData(v) ==
    /\ v.t \in {"null", "boolean", "number", "string", "array", "object"}
    /\ \A i \in 1..Len(v.e) : IsPlainData(v.e[i].v)

NonSensitive(v, config) ==
    ~HasSensitiveKey(v, config) /\ ~HasMatchingString(v, config)

\* C17 as stated: a value without a sensitive key and without a string that
\* a redact pattern matches is returned unchanged.
C17_AsStated ==
    (Returned /\ NonSensitive(zData, mergeConfig(zContext))) => zOut = zData

\* C17: a value built from null, booleans, numbers, strings, arrays and plain
\* objects, without a sensitive key, without a string that a redact pattern
\* matches and without a string longer than the effective maxStringLength,
\* is returned unchanged (the call returns, and its result equals the input
\* at every depth).
C17_RoundTripWithinLimit ==
    ( /\ zPc \in {"returned", "threw", "again"}
      /\ IsPlainData(zData)
      /\ NonSensitive(zData, mergeConfig(zContext))
      /\ ~HasLongString(zData, mergeConfig(zContext)) )
    => (zPc # "threw" /\ zOut = zData)

\* a nested object holding a non-empty string came back equal, walked deeply
C17_Witness ==
    /\ zPc = "returned"
    /\ mergeConfig(zContext).enableDeepSanitization.val
    /\ IsPlainData(zData)
    /\ NonSensitive(zData, mergeConfig(zContext))
    /\ ~HasLongString(zData, mergeConfig(zContext))
    /\ zData.t = "object"
    /\ \E i \in 1..Len(zData.e) :
           /\ zData.e[i].v.t = "object"
           /\ \E j \in 1..Len(zData.e[i].v.e) :
                  /\ zData.e[i].v.e[j].v.t = "string"
                  /\ StringLength(zData.e[i].v.e[j].v) > 0
    /\ zOut = zData

\* the context's override list if given, else the default list
EffectiveSensitiveFields ==
    IF zContext.sensitiveFields.given THEN zContext.sensitiveFields.val
    ELSE defaultSensitiveFields
DeepEnabled ==
    ~zContext.enableDeepSanitization.given \/ zContext.enableDeepSanitization.val
\* the lower-cased key contains an entry of the list
KeyContains(key, fields) ==
    \E f \in 1..Len(fields) : includes(toLowerCase(key), fields[f])
\* every property of v, at any depth, whose key is sensitive holds the marker
RECURSIVE AllSensitiveRedacted(_, _)
AllSensitiveRedacted(v, fields) ==
    \A i \in 1..Len(v.e) :
        /\ (v.t = "object" /\ KeyContains(v.e[i].k, fields))
               => v.e[i].v = JsString(<<"[","R","E","D","A","C","T","E","D","]">>, 0)
        /\ AllSensitiveRedacted(v.e[i].v, fields)

\* C18: with deep sanitization enabled, every property of the output, at any
\* depth, whose lower-cased key contains an entry of the effective
\* sensitive-field list has the value '[REDACTED]', whatever the original
\* value was.
C18_SensitiveKeysRedacted ==
    (Returned /\ DeepEnabled) => AllSensitiveRedacted(zOut, EffectiveSensitiveFields)

\* under an override list, a number, null, object or array held by a
\* sensitive key of a nested object came back as the marker
C18_Witness ==
    /\ zPc = "returned"
    /\ DeepEnabled
    /\ zContext.sensitiveFields.given
    /\ zData.t = "object"
    /\ \E i \in 1..Len(zData.e) :
           /\ zData.e[i].v.t = "object"
           /\ ~KeyContains(zData.e[i].k, EffectiveSensitiveFields)
           /\ \E j \in 1..Len(zData.e[i].v.e) :
                  /\ KeyContains(zData.e[i].v.e[j].k, EffectiveSensitiveFields)
                  /\ zData.e[i].v.e[j].v.t \in {"number", "null", "object", "array"}
                  /\ zOut.e[i].v.e[j].v.s = <<"[","R","E","D","A","C","T","E","D","]">>

\* C19: sanitize never raises: every call, also one on a value that holds a
\* reference to itself, returns a value.
C19_NeverThrows == zPc # "threw"

\* what the caller sees of a call: how it settled, and the success flag,
\* data, error and complexity of its result
Outcome(call) ==
    [ settled |-> call.pc,
      success |-> call.result.success,
      hasData |-> call.result.hasData,
      data |-> call.result.data,
      error |-> IF call.pc = "rejected" THEN call.thrown ELSE call.result.error,
      complexity |-> call.result.metadata.complexity ]
Settled(c) == cCalls[c].pc \in {"returned", "rejected"}
AsAlone(c) ==
    Outcome(cCalls[c]) =
        Outcome(SerializeAlone(cCalls[c].fam, cCalls[c].data, cCalls[c].ctx,
                               cCalls[c].startTime, cCalls[c].tryNow,
                               cCalls[c].catchNow))
\* a step changes the locals of one call at most and no instance field
OwnStateOnly ==
    /\ cInstances' = cInstances
    /\ \A c, d \in Callers :
           (c # d /\ cCalls'[c] # cCalls[c]) => (cCalls'[d] = cCalls[d])

\* C20: under any interleaving of concurrent serialize calls, no call writes
\* state shared with another call, and each call's success flag, data, error
\* and complexity are those of the same call run alone with the same payload,
\* context and clock readings.
C20_NoCoordination ==
    /\ [](\A c \in Callers : Settled(c) => AsAlone(c))
    /\ [][OwnStateOnly]_vars

\* a call on the MySQL serializer returned too slow, while a second call on
\* the same serializer, started after it, is still in its try block
C20_Witness ==
    \E c, d \in Callers :
        /\ c # d
        /\ cCalls[c].pc = "returned" /\ cCalls[c].fam = "mysql"
        /\ cCalls[c].result.error.k = "Serializacion lenta"
        /\ cCalls[d].pc = "try" /\ cCalls[d].fam = "mysql"
        /\ cCalls[d].startTime > cCalls[c].startTime
        /\ cCalls[d].startTime < cCalls[c].tryNow

\* C21: recognition is total and boolean: for the payload of every call,
\* canSerialize and getComplexity return without throwing, and canSerialize
\* returns true or false, false when no recognizer accepts the payload.
C21_RecognitionTotal ==
    (pc # "idle") =>
        /\ canSerialize(fam, data) \in {"true", "false"}
        /\ getComplexity(fam, data) # "fault"
        /\ Unrecognized(fam, data) => canSerialize(fam, data) = "false"

\* the subqueries of a lower-cased statement, written '(select' or '( select'
SubqueryOccurrences(sql) ==
    CountLiteral(sql, <<"(","s","e","l","e","c","t">>, 1)
    + CountLiteral(sql, <<"("," ","s","e","l","e","c","t">>, 1)

\* C22: in the SQL text families every join adds 2 and every subquery adds
\* 3, and in those that score them every common table expression adds 3 and
\* every use of over adds 2, per occurrence, with or without a space next
\* to the parenthesis.
C22_WeightTimesCount ==
    (sPc = "done" /\ sFam \in KeywordFamilies) =>
        LET sql == toLowerCase(Chars(sQuery.txt)) IN
        /\ sParts.join = 2 * CountLiteral(sql, <<"j","o","i","n">>, 1)
        /\ sParts.subquery = 3 * SubqueryOccurrences(sql)
        /\ (sFam # "mysql") =>
              /\ sParts.cte = 3 * CountCte(sql, 1)
              /\ sParts.window = 2 * CountOver(sql, 1)

\* the substrings of the characters s that a redact pattern of config
\* matches and that are not a redacted form already
SecretMatches(s, config) ==
    {SubSeq(s, i, MatchEnd(config.redactPatterns.val[p], s, i)) :
        <<p, i>> \in {x \in (1..Len(config.redactPatterns.val)) \X (1..Len(s)) :
                        MatchEnd(config.redactPatterns.val[x[1]], s, x[2]) # 0}}
    \ {m \in {SubSeq(s, i, j) : i \in 1..Len(s), j \in 1..Len(s)} :
          includes(m, <<"[","R","E","D","A","C","T","E","D","]">>)}

\* C23: every substring of a sanitized string that an effective redact
\* pattern matches, in whatever letter case its keyword is written, is
\* replaced, so that it is not found in the string that sanitize returns.
C23_MatchesRedacted ==
    (Returned /\ zData.t = "string") =>
        \A m \in SecretMatches(zData.s, mergeConfig(zContext)) :
            ~includes(zOut.s, m)

\* no call of the adapter is between two awaits
RabbitQuiet == \A s \in Slots : rCalls[s].at \in {"idle", "resolved", "rejected"}
\* C24: once disconnect has completed (and no call is still running) every
\* consumer a subscribe started is gone from the broker, the consumer-tag
\* table is empty, channel and connection are null and nothing the adapter
\* opened is still open.
C24_CleanAfterDisconnect ==
    (rClean /\ RabbitQuiet) =>
        /\ rTags = NoTags
        /\ rChannel = 0 /\ rConnection = 0
        /\ rBroker.consumers = {}
        /\ rBroker.chans = {} /\ rBroker.conns = {}

\* C25: log sends first with the stored token and at most once more, with
\* the token the InvalidSequenceTokenException told; another error of the
\* first send is rethrown; and when log has resolved the event was accepted
\* and the stored token is the nextSequenceToken of the accepting call.
C25_BoundedRetry ==
    (wPc \in {"resolved", "rejected"}) =>
        /\ Len(wCall.sent) \in {1, 2}
        /\ wCall.sent[1] = wCall.stored
        /\ (wPc = "rejected" /\ Len(wCall.sent) = 1) =>
              wCall.error = ThrottlingException
        /\ (wPc = "resolved") =>
              /\ wCall.accepted
              /\ wToken = wCall.next

\* the option the adapter was configured with, or the documented default
Configured(option, default) == IF option.t = "undefined" THEN default ELSE option
\* C26: a message without its own qos (retain) is sent with the configured
\* qos (retain), 1 (false) when none is configured; a qos (retain) given on
\* the message, 0 and false included, is the one that is sent.
C26_QosAndRetain ==
    (mPc \in {"send", "resolved", "rejected"}) =>
        /\ mCommand.qos = IF mMessage.qos.t = "undefined"
                          THEN Configured(mConfig.qos, Num(1))
                          ELSE mMessage.qos
        /\ mCommand.retain = IF mMessage.retain.t = "undefined"
                             THEN Configured(mConfig.retain, Bool(FALSE))
                             ELSE mMessage.retain

\* slot s takes a call of publish, subscribe or unsubscribe in this step
RabbitInvoked(s) ==
    /\ rCalls[s].at = "idle"
    /\ rCalls'[s].op \in {"publish", "subscribe", "unsubscribe"}
\* C27: publish, subscribe and unsubscribe invoked while no connect has
\* resolved since the last disconnect completed are rejected with the
\* 'not available' error, make no request to the broker and leave the
\* consumer-tag table as it is; invoked after connect has resolved and
\* before disconnect begins they are not rejected with that error.
C27_NotAvailable ==
    [][\A s \in Slots : RabbitInvoked(s) =>
          /\ (rLink = "down") =>
                /\ rCalls'[s].at = "rejected"
                /\ rCalls'[s].err = NotAvailable
                /\ rCalls'[s].rpcs = 0
                /\ rTags' = rTags
          /\ (rLink = "up") => (rCalls'[s].err # NotAvailable)]_vars

\* slot s takes a NatsAdapter call of publish, subscribe or unsubscribe
NatsInvoked(s) ==
    /\ nCalls[s].at = "idle"
    /\ nCalls'[s].op \in {"publish", "subscribe", "unsubscribe"}
\* the statement of C27 for NatsAdapter
NatsNotAvailable ==
    [][\A s \in Slots : NatsInvoked(s) =>
          /\ (nLink = "down") =>
                /\ nCalls'[s].at = "rejected"
                /\ nCalls'[s].err = NotAvailable
                /\ nCalls'[s].rpcs = 0
                /\ nSubs' = nSubs
          /\ (nLink = "up") => (nCalls'[s].err # NotAvailable)]_vars

\* the call ended in the failure 'Tipo de dato <Family> no reconocido'
EndedUnrecognized ==
    /\ pc = "returned" /\ ~result.success /\ result.hasError
    /\ result.error.k = NotRecognized(fam).k
\* C28: canSerialize(payload) is truthy exactly when serialize(payload,
\* context) does not end in the 'no reconocido' failure, and a payload
\* canSerialize does not accept has complexity 'low'.
C28_RecognitionAgrees ==
    (pc \in {"returned", "rejected"}) =>
        /\ (canSerialize(fam, data) = "true") <=> ~EndedUnrecognized
        /\ (canSerialize(fam, data) # "true") =>
              getComplexity(fam, data) = "low"

ErrorVariant ==
    [mysql |-> "MySQLError", oracle |-> "OracleError", mongodb |-> "MongoDBError"]
\* d is a well-formed error record of family f
WellFormedError(f, d) ==
    /\ d.kind = "object"
    /\ CASE f = "mysql" ->
              IsStr(d, "code") /\ IsNum(d, "errno") /\ IsStr(d, "sqlMessage")
         [] f = "oracle" -> IsNum(d, "code") /\ IsStr(d, "message")
         [] f = "mongodb" ->
              /\ IsNum(d, "code") \/ (IsStr(d, "message") /\ Truthy(Get(d, "message")))
              /\ \A x \in {"projection", "update", "pipeline", "stages"} :
                    IsUndefined(d, x)
         [] OTHER -> FALSE
\* C29: a well-formed MySQL, Oracle or MongoDB error record, with or without
\* the statement, collection, operation or filter it failed on, is
\* serialized as the family's Error variant with complexity 'low'.
C29_ErrorVariant ==
    (pc = "returned" /\ result.success /\ WellFormedError(fam, data)) =>
        /\ result.data.type = ErrorVariant[fam]
        /\ result.metadata.complexity = "low"

\* C30: retrieve, exists, getMetadata and delete of key k address the Key
\* at which store(k) put its object, and a key returned by list, passed
\* unchanged to one of them, addresses the listed object, whose Key it is.
C30_KeysAddress ==
    (s3Last.op \in {"retrieve", "exists", "getMetadata", "delete"}) =>
        IF s3Last.listed
        THEN s3Last.Key = s3Last.key
        ELSE (s3Where[s3Last.key] # <<>>) =>
                 s3Last.Key = s3Where[s3Last.key]
====
